---- MODULE Spec2Model ----
(***************************************************************************)
(* Adaptive interview session engine of intervueBot.                       *)
(*                                                                         *)
(* The model follows backend/src/intervuebot/api/v1/endpoints/interviews.py*)
(* (the five session operations), core/redis.py (the session store) and    *)
(* agents/adaptive_interview_agent.py (question generation and answer      *)
(* evaluation).  Scores are kept in tenths of a point (7.0 is 70), averages*)
(* are exact fractions <<numerator, denominator>> in lowest terms.         *)
(***************************************************************************)
EXTENDS Integers, Sequences, FiniteSets, TLC

VARIABLES store, issued, last, trial

vars == <<store, issued, last, trial>>

----------------------------------------------------------------------------
(* Bounds of the model *)

\* cap on the questions one session is asked in the full-input specification
MaxQuestions == 2

\* cap on the questions of one session in the long-run specification
MaxLongRun == 11

----------------------------------------------------------------------------
(* Program constants *)

\* "Assume 10 questions max": the planned total number of questions
PlannedTotalQuestions == 10

\* thresholds of _determine_next_difficulty, in tenths of a point
EarlyProgressPercent == 30
HighScore == 80
LowScore == 50

\* default evaluations of evaluate_response, in tenths of a point
ParseFailScore == 70
ErrorScore == 50

\* thresholds of _generate_comprehensive_report, in tenths of a point
HireScore == 80
ConsiderScore == 60

\* confidence_level of the report, in tenths
ReportConfidence == 8

----------------------------------------------------------------------------
(* Value spaces *)

None == "None"

\* an optional value: a dict key that is absent, or present with a value
Absent == <<>>
Some(x) == <<x>>

DifficultyLevel == {"easy", "medium", "hard"}

\* the session ids uuid4 can produce; clients name these in their requests
SessionIds == {"sid_a"}
RequestIds == SessionIds

RECURSIVE gcd(_, _)
gcd(a, b) == IF b = 0 THEN a ELSE gcd(b, a % b)

\* the float num / den, kept exact: a fraction in lowest terms (den > 0)
Frac(num, den) ==
    LET g == gcd(num, den) IN IF g = 0 THEN <<0, 1>> ELSE <<num \div g, den \div g>>

FracEq(x, y) == x[1] * y[2] = y[1] * x[2]
FracGeq(x, n) == x[1] >= n * x[2]
FracLeq(x, n) == x[1] <= n * x[2]

RECURSIVE SumSeq(_)
SumSeq(s) == IF s = <<>> THEN 0 ELSE Head(s) + SumSeq(Tail(s))

----------------------------------------------------------------------------
(* agents/adaptive_interview_agent.py *)

\* what the language model call of the agent can come back with: an
\* exception anywhere in the try block, text with no usable JSON, or JSON

QuestionReplies ==
    {[kind |-> "raise", difficulty |-> "medium"],
     [kind |-> "unparsable", difficulty |-> "medium"],
     [kind |-> "json", difficulty |-> "hard"]}

EvaluationReplies ==
    {[kind |-> "raise", overall_score |-> 0, suggested_difficulty |-> "medium"],
     [kind |-> "unparsable", overall_score |-> 0, suggested_difficulty |-> "medium"],
     [kind |-> "json", overall_score |-> 0, suggested_difficulty |-> "easy"],
     [kind |-> "json", overall_score |-> 100, suggested_difficulty |-> "hard"]}

\* the replies used where only the length of a session matters
NarrowQuestionReplies == {[kind |-> "raise", difficulty |-> "medium"]}
NarrowEvaluationReplies == {[kind |-> "raise", overall_score |-> 0, suggested_difficulty |-> "medium"]}

DefaultExpectedDuration == 300

\* the early-interview rule applied to the very first question only
determine_next_difficulty_first_only(current_difficulty, average_score, interview_progress) ==
    IF interview_progress[1] = 0
    THEN "medium"
    ELSE IF FracGeq(average_score, HighScore)
    THEN (IF current_difficulty = "easy" THEN "medium" ELSE "hard")
    ELSE IF FracLeq(average_score, LowScore)
    THEN (IF current_difficulty = "hard" THEN "medium" ELSE "easy")
    ELSE current_difficulty

\* the score thresholds taken as strict
determine_next_difficulty_strict(current_difficulty, average_score, interview_progress) ==
    IF interview_progress[1] * 100 < EarlyProgressPercent * interview_progress[2]
    THEN "medium"
    ELSE IF ~FracLeq(average_score, HighScore)
    THEN (IF current_difficulty = "easy" THEN "medium" ELSE "hard")
    ELSE IF ~FracGeq(average_score, LowScore)
    THEN (IF current_difficulty = "hard" THEN "medium" ELSE "easy")
    ELSE current_difficulty

\* the step up taken round the scale instead of stopping at hard
determine_next_difficulty_unclamped(current_difficulty, average_score, interview_progress) ==
    IF interview_progress[1] * 100 < EarlyProgressPercent * interview_progress[2]
    THEN "medium"
    ELSE IF FracGeq(average_score, HighScore)
    THEN (IF current_difficulty = "easy" THEN "medium"
          ELSE IF current_difficulty = "medium" THEN "hard" ELSE "easy")
    ELSE IF FracLeq(average_score, LowScore)
    THEN (IF current_difficulty = "hard" THEN "medium" ELSE "easy")
    ELSE current_difficulty

determine_next_difficulty(current_difficulty, average_score, interview_progress) ==
    IF interview_progress[1] * 100 < EarlyProgressPercent * interview_progress[2]
    THEN "medium"
    ELSE IF FracGeq(average_score, HighScore)
    THEN (IF current_difficulty = "easy" THEN "medium" ELSE "hard")
    ELSE IF FracLeq(average_score, LowScore)
    THEN (IF current_difficulty = "hard" THEN "medium" ELSE "easy")
    ELSE current_difficulty

\* response.evaluation_score is truthy: a float other than 0.0
Truthy(score) == score # 0

\* avg_score of _build_question_context: mean of the truthy scores, else 0.0
context_avg_score(previous_responses) ==
    LET scored == SelectSeq(previous_responses, LAMBDA r : Truthy(r.evaluation_score))
        scores == [i \in 1..Len(scored) |-> scored[i].evaluation_score]
    IN IF Len(scores) > 0 THEN Frac(SumSeq(scores), Len(scores)) ELSE <<0, 1>>

build_question_context(previous_responses, current_difficulty, interview_progress) ==
    [average_score |-> context_avg_score(previous_responses),
     next_difficulty |-> determine_next_difficulty(current_difficulty,
                            context_avg_score(previous_responses), interview_progress)]

\* generate_next_question with a fallback question of the current difficulty
generate_next_question_fallback_current(previous_responses, current_difficulty, progress, question_count, llm) ==
    LET context == build_question_context(previous_responses, current_difficulty, progress)
    IN [id |-> question_count + 1,
        difficulty |-> CASE llm.kind = "raise" -> current_difficulty
                         [] llm.kind = "unparsable" -> context.next_difficulty
                         [] OTHER -> llm.difficulty,
        expected_duration |-> DefaultExpectedDuration]

generate_next_question(previous_responses, current_difficulty, progress, question_count, llm) ==
    LET context == build_question_context(previous_responses, current_difficulty, progress)
    IN [id |-> question_count + 1,
        difficulty |-> CASE llm.kind = "raise" -> "medium"
                         [] llm.kind = "unparsable" -> context.next_difficulty
                         [] OTHER -> llm.difficulty,
        expected_duration |-> DefaultExpectedDuration]

\* evaluate_response with 0.0 as the score of both default evaluations
evaluate_response_zero_default(llm) ==
    CASE llm.kind = "raise" ->
           [overall_score |-> 0, suggested_difficulty |-> "medium"]
      [] llm.kind = "unparsable" ->
           [overall_score |-> 0, suggested_difficulty |-> "medium"]
      [] OTHER ->
           [overall_score |-> llm.overall_score,
            suggested_difficulty |-> llm.suggested_difficulty]

evaluate_response(llm) ==
    CASE llm.kind = "raise" ->
           [overall_score |-> ErrorScore, suggested_difficulty |-> "medium"]
      [] llm.kind = "unparsable" ->
           [overall_score |-> ParseFailScore, suggested_difficulty |-> "medium"]
      [] OTHER ->
           [overall_score |-> llm.overall_score,
            suggested_difficulty |-> llm.suggested_difficulty]

----------------------------------------------------------------------------
(* services/resume_analyzer.py *)

\* confidence_score of a ResumeAnalysis, in hundredths: the value given when
\* the analysis raised, and the default when the reply does not name one
FailedAnalysisConfidence == 10
DefaultAnalysisConfidence == 80

\* what the language model call of the analyzer can come back with: an
\* exception anywhere in the try block, text with no usable JSON, or JSON;
\* experience_years is in tenths of a year
ResumeReplies ==
    {[kind |-> "raise", skills |-> <<>>, experience_years |-> 0, confidence_score |-> 0],
     [kind |-> "unparsable", skills |-> <<>>, experience_years |-> 0, confidence_score |-> 0],
     [kind |-> "json", skills |-> <<"python">>, experience_years |-> 35, confidence_score |-> 85]}

NarrowResumeReplies ==
    {[kind |-> "raise", skills |-> <<>>, experience_years |-> 0, confidence_score |-> 0]}

\* _parse_analysis_response: the JSON object of the reply, {} when there is none
parse_analysis_response(llm) ==
    IF llm.kind = "json"
    THEN [skills |-> Some(llm.skills),
          experience_years |-> Some(llm.experience_years),
          confidence_score |-> Some(llm.confidence_score)]
    ELSE [skills |-> Absent, experience_years |-> Absent, confidence_score |-> Absent]

\* the analysis returned once the try block has raised, with confidence 0
analyze_resume_zero_confidence(llm) ==
    IF llm.kind = "raise"
    THEN [extracted_skills |-> <<>>, experience_years |-> 0, confidence_score |-> 0]
    ELSE LET analysis_data == parse_analysis_response(llm)
         IN [extracted_skills |->
                IF analysis_data.skills = Absent THEN <<>> ELSE analysis_data.skills[1],
             experience_years |->
                IF analysis_data.experience_years = Absent THEN 0
                ELSE analysis_data.experience_years[1],
             confidence_score |->
                IF analysis_data.confidence_score = Absent THEN DefaultAnalysisConfidence
                ELSE analysis_data.confidence_score[1]]

analyze_resume(llm) ==
    IF llm.kind = "raise"
    THEN [extracted_skills |-> <<>>, experience_years |-> 0,
          confidence_score |-> FailedAnalysisConfidence]
    ELSE LET analysis_data == parse_analysis_response(llm)
         IN [extracted_skills |->
                IF analysis_data.skills = Absent THEN <<>> ELSE analysis_data.skills[1],
             experience_years |->
                IF analysis_data.experience_years = Absent THEN 0
                ELSE analysis_data.experience_years[1],
             confidence_score |->
                IF analysis_data.confidence_score = Absent THEN DefaultAnalysisConfidence
                ELSE analysis_data.confidence_score[1]]

----------------------------------------------------------------------------
(* core/interview_sequence.py: the phase catalog and the planning of an    *)
(* interview sequence from it.  Years of experience are in tenths of a     *)
(* year; a position title is the sequence of its characters.               *)

InterviewPhaseType ==
    <<"introduction", "warm_up", "technical_basic", "technical_advanced", "behavioral",
      "problem_solving", "situational", "cultural_fit", "closing">>

InterviewType == {"technical", "behavioral", "mixed", "leadership"}

PhaseConfig(name, order, duration_minutes, question_count, difficulty, required_for) ==
    [name |-> name, order |-> order, duration_minutes |-> duration_minutes,
     question_count |-> question_count, difficulty |-> difficulty,
     required_for |-> required_for]

\* _initialize_phase_configs
phase_configs ==
    "introduction" :> PhaseConfig("Introduction & Ice Breaker", 1, 5, 2, "easy",
                       {"technical", "behavioral", "mixed"}) @@
    "warm_up" :> PhaseConfig("Warm-up Questions", 2, 8, 3, "easy",
                       {"technical", "behavioral", "mixed"}) @@
    "technical_basic" :> PhaseConfig("Basic Technical Assessment", 3, 15, 4, "medium",
                       {"technical", "mixed"}) @@
    "technical_advanced" :> PhaseConfig("Advanced Technical Assessment", 4, 20, 3, "hard",
                       {"technical", "mixed"}) @@
    "behavioral" :> PhaseConfig("Behavioral Assessment", 5, 15, 4, "medium",
                       {"behavioral", "mixed"}) @@
    "problem_solving" :> PhaseConfig("Problem-Solving Scenarios", 6, 12, 2, "hard",
                       {"technical", "mixed"}) @@
    "situational" :> PhaseConfig("Situational Questions", 7, 10, 2, "medium",
                       {"behavioral", "mixed"}) @@
    "cultural_fit" :> PhaseConfig("Cultural Fit Assessment", 8, 8, 2, "medium",
                       {"behavioral", "mixed"}) @@
    "closing" :> PhaseConfig("Closing & Next Steps", 9, 5, 1, "easy",
                       {"technical", "behavioral", "mixed"})

InterviewPhase(phase_name, phase_order, estimated_duration, question_count, difficulty_level) ==
    [phase_name |-> phase_name, phase_order |-> phase_order,
     estimated_duration |-> estimated_duration, question_count |-> question_count,
     difficulty_level |-> difficulty_level]

\* experience of at most one year, and of at least five
JuniorTenths == 10
SeniorTenths == 50

\* the difficulty with the senior step taken only above five years
determine_difficulty_strict_senior(base_difficulty, experience_years) ==
    IF experience_years <= JuniorTenths
    THEN IF base_difficulty = "hard" THEN "medium" ELSE "easy"
    ELSE IF experience_years > SeniorTenths
    THEN IF base_difficulty = "easy" THEN "medium" ELSE "hard"
    ELSE base_difficulty

\* _determine_difficulty
determine_difficulty(base_difficulty, experience_years) ==
    IF experience_years <= JuniorTenths
    THEN IF base_difficulty = "hard" THEN "medium"
         ELSE IF base_difficulty = "medium" THEN "easy"
         ELSE "easy"
    ELSE IF experience_years >= SeniorTenths
    THEN IF base_difficulty = "easy" THEN "medium"
         ELSE IF base_difficulty = "medium" THEN "hard"
         ELSE "hard"
    ELSE base_difficulty

UpperCase == <<"A", "B", "C", "D", "E", "F", "G", "H", "I", "J", "K", "L", "M", "N", "O", "P", "Q", "R", "S", "T", "U", "V", "W", "X", "Y", "Z">>
LowerCase == <<"a", "b", "c", "d", "e", "f", "g", "h", "i", "j", "k", "l", "m", "n", "o", "p", "q", "r", "s", "t", "u", "v", "w", "x", "y", "z">>

\* str.lower
lower(text) ==
    [i \in 1..Len(text) |->
        IF \E n \in 1..Len(UpperCase) : UpperCase[n] = text[i]
        THEN LowerCase[CHOOSE n \in 1..Len(UpperCase) : UpperCase[n] = text[i]]
        ELSE text[i]]

\* needle in haystack, for strings
contains(haystack, needle) ==
    \E start \in 1..(Len(haystack) - Len(needle) + 1) :
        SubSeq(haystack, start, start + Len(needle) - 1) = needle

SeniorWord == <<"s", "e", "n", "i", "o", "r">>
LeadWord == <<"l", "e", "a", "d">>

MaxQuestionCount == 6

Min(a, b) == IF a <= b THEN a ELSE b
Max(a, b) == IF a >= b THEN a ELSE b

\* the question count with no cap on the senior increase
adjust_question_count_uncapped(base_count, experience_years, position) ==
    LET raised == IF contains(lower(position), SeniorWord) \/ contains(lower(position), LeadWord)
                  THEN base_count + 1 ELSE base_count
    IN IF experience_years <= JuniorTenths THEN Max(raised - 1, 1) ELSE raised

\* _adjust_question_count
adjust_question_count(base_count, experience_years, position) ==
    LET raised == IF contains(lower(position), SeniorWord) \/ contains(lower(position), LeadWord)
                  THEN Min(base_count + 1, MaxQuestionCount) ELSE base_count
    IN IF experience_years <= JuniorTenths THEN Max(raised - 1, 1) ELSE raised

MinPhaseDuration == 3
NormalQuestionCount == 3

\* _adjust_duration_for_phase: base_duration * (question_count / 3), times
\* 1.3 for hard and 0.8 for easy, cut to an integer, at least 3
adjust_duration_for_phase(base_duration, question_count, difficulty) ==
    LET tenths == IF difficulty = "hard" THEN 13 ELSE IF difficulty = "easy" THEN 8 ELSE 10
        duration == Frac(base_duration * question_count * tenths, NormalQuestionCount * 10)
    IN Max(duration[1] \div duration[2], MinPhaseDuration)

\* _adjust_phase_for_candidate
adjust_phase_for_candidate(config, experience_years, position) ==
    LET difficulty == determine_difficulty(config.difficulty, experience_years)
        question_count == adjust_question_count(config.question_count, experience_years, position)
        duration == adjust_duration_for_phase(config.duration_minutes, question_count, difficulty)
    IN InterviewPhase(config.name, config.order, duration, question_count, difficulty)

\* the phases with every duration left as estimated
adjust_duration_unscaled(phases, total_duration) == phases

\* the phases scaled with no minimum of 3 minutes
adjust_duration_no_floor(phases, total_duration) ==
    LET total_estimated == SumSeq([i \in 1..Len(phases) |-> phases[i].estimated_duration])
    IN IF total_estimated <= total_duration
       THEN phases
       ELSE [i \in 1..Len(phases) |->
               [phases[i] EXCEPT !.estimated_duration = (@ * total_duration) \div total_estimated]]

\* _adjust_duration: ratio = total_duration / total_estimated, each duration
\* times ratio cut to an integer, at least 3
adjust_duration(phases, total_duration) ==
    LET total_estimated == SumSeq([i \in 1..Len(phases) |-> phases[i].estimated_duration])
        ratio == Frac(total_duration, Max(total_estimated, 1))
    IN IF total_estimated <= total_duration
       THEN phases
       ELSE [i \in 1..Len(phases) |->
               LET scaled == Frac(phases[i].estimated_duration * ratio[1], ratio[2])
               IN [phases[i] EXCEPT !.estimated_duration =
                      Max(scaled[1] \div scaled[2], MinPhaseDuration)]]

\* list.sort(key=order): a stable insertion sort of phase keys
insert_by_order(key, sorted) ==
    SelectSeq(sorted, LAMBDA k : phase_configs[k].order < phase_configs[key].order)
    \o <<key>>
    \o SelectSeq(sorted, LAMBDA k : phase_configs[k].order >= phase_configs[key].order)

RECURSIVE sort_by_order(_)
sort_by_order(keys) ==
    IF keys = <<>> THEN <<>>
    ELSE insert_by_order(Head(keys), sort_by_order(Tail(keys)))

\* the sequence in the order the catalog was enumerated
generate_interview_sequence_unsorted(enumeration, experience_years, position, interview_type, total_duration) ==
    LET required_phases ==
            SelectSeq(enumeration, LAMBDA k : interview_type \in phase_configs[k].required_for)
        adjusted_phases ==
            [i \in 1..Len(required_phases) |->
                adjust_phase_for_candidate(phase_configs[required_phases[i]],
                                           experience_years, position)]
    IN adjust_duration(adjusted_phases, total_duration)

\* the phases of the sequence before _adjust_duration
adjusted_phases_of(enumeration, experience_years, position, interview_type) ==
    LET required_phases ==
            sort_by_order(SelectSeq(enumeration,
                LAMBDA k : interview_type \in phase_configs[k].required_for))
    IN [i \in 1..Len(required_phases) |->
           adjust_phase_for_candidate(phase_configs[required_phases[i]],
                                      experience_years, position)]

\* generate_interview_sequence; enumeration is the order of phase_configs.items()
generate_interview_sequence(enumeration, experience_years, position, interview_type, total_duration) ==
    adjust_duration(adjusted_phases_of(enumeration, experience_years, position, interview_type),
                    total_duration)

----------------------------------------------------------------------------
(* core/redis.py: the keys interview_session:<id> of the Redis store.      *)
(* store is a function from the session ids that have a live key to the   *)
(* session json.loads returns for the JSON text stored under it; the text  *)
(* itself is the tree of its tokens.                                       *)

\* the tokens json.dumps writes: a string, a number written without and with
\* a fraction (an int and a float), an array and an object
JsonString(s) == [json |-> "string", text |-> s]
JsonInt(n) == [json |-> "int", value |-> n]
JsonReal(x) == [json |-> "real", num |-> x[1], den |-> x[2]]
JsonArray(items) == [json |-> "array", items |-> items]
JsonObject(members) == [json |-> "object", members |-> members]

\* json.dumps of the dict of a resume analysis, and json.loads of its text
dumps_analysis(a) ==
    JsonObject([extracted_skills |->
                    JsonArray([i \in 1..Len(a.extracted_skills) |->
                                 JsonString(a.extracted_skills[i])]),
                experience_years |-> JsonReal(<<a.experience_years, 1>>),
                confidence_score |-> JsonReal(<<a.confidence_score, 1>>)])

loads_analysis(doc) ==
    LET m == doc.members
    IN [extracted_skills |->
            [i \in 1..Len(m.extracted_skills.items) |-> m.extracted_skills.items[i].text],
        experience_years |-> m.experience_years.num,
        confidence_score |-> m.confidence_score.num]

\* a question, a response and an evaluation of the session lists
dumps_question(q) ==
    JsonObject([id |-> JsonString(q.id),
                difficulty |-> JsonString(q.difficulty),
                expected_duration |-> JsonInt(q.expected_duration)])

loads_question(doc) ==
    [id |-> doc.members.id.text,
     difficulty |-> doc.members.difficulty.text,
     expected_duration |-> doc.members.expected_duration.value]

dumps_response(r) ==
    JsonObject([question_id |-> JsonString(r.question_id),
                time_taken |-> JsonInt(r.time_taken),
                evaluation_score |-> JsonReal(<<r.evaluation_score, 1>>)])

loads_response(doc) ==
    [question_id |-> doc.members.question_id.text,
     time_taken |-> doc.members.time_taken.value,
     evaluation_score |-> doc.members.evaluation_score.num]

dumps_evaluation(e) ==
    JsonObject([overall_score |-> JsonReal(<<e.overall_score, 1>>),
                suggested_difficulty |-> JsonString(e.suggested_difficulty)])

loads_evaluation(doc) ==
    [overall_score |-> doc.members.overall_score.num,
     suggested_difficulty |-> doc.members.suggested_difficulty.text]

\* the dict of the final report
dumps_report(r) ==
    JsonObject([session_id |-> JsonString(r.session_id),
                overall_score |-> JsonReal(r.overall_score),
                total_questions |-> JsonInt(r.total_questions),
                total_responses |-> JsonInt(r.total_responses),
                average_response_time |-> JsonReal(r.average_response_time),
                hiring_recommendation |-> JsonString(r.hiring_recommendation),
                confidence_level |-> JsonReal(<<r.confidence_level, 1>>),
                interview_duration |-> JsonReal(<<r.interview_duration, 1>>)])

loads_report(doc) ==
    LET m == doc.members
    IN [session_id |-> m.session_id.text,
        overall_score |-> <<m.overall_score.num, m.overall_score.den>>,
        total_questions |-> m.total_questions.value,
        total_responses |-> m.total_responses.value,
        average_response_time |->
            <<m.average_response_time.num, m.average_response_time.den>>,
        hiring_recommendation |-> m.hiring_recommendation.text,
        confidence_level |-> m.confidence_level.num,
        interview_duration |-> m.interview_duration.num]

\* the keys session_data has: ended_at and final_report only once they are set
SessionKeys(session_data) ==
    {"session_id", "candidate", "current_phase", "current_difficulty",
     "current_question_index", "total_questions_asked", "total_responses_received",
     "average_score", "questions", "responses", "evaluations", "status", "started_at"}
    \cup (IF session_data.ended_at = Absent THEN {} ELSE {"ended_at"})
    \cup (IF session_data.final_report = Absent THEN {} ELSE {"final_report"})

\* json.dumps with the running average cut to whole points
json_dumps_whole_average(session_data) ==
    JsonObject([k \in SessionKeys(session_data) |->
        CASE k = "session_id" -> JsonString(session_data.session_id)
          [] k = "candidate" ->
               JsonObject([resume_analysis |->
                              dumps_analysis(session_data.candidate.resume_analysis)])
          [] k = "current_phase" -> JsonString(session_data.current_phase)
          [] k = "current_difficulty" -> JsonString(session_data.current_difficulty)
          [] k = "current_question_index" -> JsonInt(session_data.current_question_index)
          [] k = "total_questions_asked" -> JsonInt(session_data.total_questions_asked)
          [] k = "total_responses_received" -> JsonInt(session_data.total_responses_received)
          [] k = "average_score" ->
               JsonReal(<<10 * (session_data.average_score[1]
                                  \div (10 * session_data.average_score[2])), 1>>)
          [] k = "questions" ->
               JsonArray([i \in 1..Len(session_data.questions) |->
                            dumps_question(session_data.questions[i])])
          [] k = "responses" ->
               JsonArray([i \in 1..Len(session_data.responses) |->
                            dumps_response(session_data.responses[i])])
          [] k = "evaluations" ->
               JsonArray([i \in 1..Len(session_data.evaluations) |->
                            dumps_evaluation(session_data.evaluations[i])])
          [] k = "status" -> JsonString(session_data.status)
          [] k = "started_at" -> JsonString(session_data.started_at)
          [] k = "ended_at" -> JsonString(session_data.ended_at[1])
          [] k = "final_report" -> dumps_report(session_data.final_report[1])])

\* json.dumps(session_data)
json_dumps(session_data) ==
    JsonObject([k \in SessionKeys(session_data) |->
        CASE k = "session_id" -> JsonString(session_data.session_id)
          [] k = "candidate" ->
               JsonObject([resume_analysis |->
                              dumps_analysis(session_data.candidate.resume_analysis)])
          [] k = "current_phase" -> JsonString(session_data.current_phase)
          [] k = "current_difficulty" -> JsonString(session_data.current_difficulty)
          [] k = "current_question_index" -> JsonInt(session_data.current_question_index)
          [] k = "total_questions_asked" -> JsonInt(session_data.total_questions_asked)
          [] k = "total_responses_received" -> JsonInt(session_data.total_responses_received)
          [] k = "average_score" -> JsonReal(session_data.average_score)
          [] k = "questions" ->
               JsonArray([i \in 1..Len(session_data.questions) |->
                            dumps_question(session_data.questions[i])])
          [] k = "responses" ->
               JsonArray([i \in 1..Len(session_data.responses) |->
                            dumps_response(session_data.responses[i])])
          [] k = "evaluations" ->
               JsonArray([i \in 1..Len(session_data.evaluations) |->
                            dumps_evaluation(session_data.evaluations[i])])
          [] k = "status" -> JsonString(session_data.status)
          [] k = "started_at" -> JsonString(session_data.started_at)
          [] k = "ended_at" -> JsonString(session_data.ended_at[1])
          [] k = "final_report" -> dumps_report(session_data.final_report[1])])

\* json.loads(data)
json_loads(data) ==
    LET m == data.members
    IN [session_id |-> m["session_id"].text,
        candidate |->
            [resume_analysis |-> loads_analysis(m["candidate"].members.resume_analysis)],
        current_phase |-> m["current_phase"].text,
        current_difficulty |-> m["current_difficulty"].text,
        current_question_index |-> m["current_question_index"].value,
        total_questions_asked |-> m["total_questions_asked"].value,
        total_responses_received |-> m["total_responses_received"].value,
        average_score |-> <<m["average_score"].num, m["average_score"].den>>,
        questions |-> [i \in 1..Len(m["questions"].items) |->
                         loads_question(m["questions"].items[i])],
        responses |-> [i \in 1..Len(m["responses"].items) |->
                         loads_response(m["responses"].items[i])],
        evaluations |-> [i \in 1..Len(m["evaluations"].items) |->
                           loads_evaluation(m["evaluations"].items[i])],
        status |-> m["status"].text,
        started_at |-> m["started_at"].text,
        ended_at |-> IF "ended_at" \in DOMAIN m THEN Some(m["ended_at"].text) ELSE Absent,
        final_report |-> IF "final_report" \in DOMAIN m
                         THEN Some(loads_report(m["final_report"])) ELSE Absent]

\* setex(key, ttl, json.dumps(session_data)): store keeps, for each live key,
\* the text written under it as json.loads reads it back
\* setex under a key that does not name the session: one text for every id
store_interview_session_shared_key(session_id, session_data) ==
    [k \in DOMAIN store \cup {session_id} |-> json_loads(json_dumps(session_data))]

store_interview_session(session_id, session_data) ==
    [k \in DOMAIN store \cup {session_id} |->
        IF k = session_id THEN json_loads(json_dumps(session_data)) ELSE store[k]]

\* json.loads(data) if data else None
get_interview_session(session_id) ==
    IF session_id \in DOMAIN store THEN Some(store[session_id]) ELSE Absent

\* the key's time-to-live ran out: Redis drops it
ttl_expired(session_id) == [k \in DOMAIN store \ {session_id} |-> store[k]]

----------------------------------------------------------------------------
(* api/v1/endpoints/interviews.py *)

Ops == {"start", "next_question", "submit_answer", "finalize", "get_report"}

\* Each handler takes an input named fails: whether a step between its checks
\* and its return raises (a model conversion, the agent or report call, the
\* Redis write); the handler's "except Exception" turns that into HTTP 500.

\* the HTTPException (or the 200 response) a call ended with
Reply(op, sid, qid, code, error, body) ==
    [op |-> op, sid |-> sid, qid |-> qid, code |-> code, error |-> error, body |-> body]

\* a session id derived from the request instead of drawn afresh
uuid4_reused(ids) == ids

\* str(uuid.uuid4()): an id, of those in ids, that no earlier call was given
uuid4(ids) == ids \ issued

\* total_questions / 10.0 with no upper limit
interview_progress_unclamped(total_questions) ==
    Frac(total_questions, PlannedTotalQuestions)

\* min(total_questions / 10.0, 1.0)
interview_progress(total_questions) ==
    IF total_questions >= PlannedTotalQuestions THEN <<1, 1>>
    ELSE Frac(total_questions, PlannedTotalQuestions)

new_session(session_id, now, resume_analysis) ==
    [session_id |-> session_id,
     candidate |-> [resume_analysis |-> resume_analysis],
     current_phase |-> "introduction",
     current_difficulty |-> "medium",
     current_question_index |-> 0,
     total_questions_asked |-> 0,
     total_responses_received |-> 0,
     average_score |-> <<0, 1>>,
     questions |-> <<>>,
     responses |-> <<>>,
     evaluations |-> <<>>,
     status |-> "in_progress",
     started_at |-> now,
     ended_at |-> Absent,
     final_report |-> Absent]

start_interview(ids, has_files, resume, now, fails) ==
    /\ uuid4(ids) # {}
    /\ IF ~has_files
       THEN /\ last' = Reply("start", None, 0, 400, "BadRequest", Absent)
            /\ UNCHANGED <<store, issued>>
       ELSE IF fails
       THEN /\ last' = Reply("start", None, 0, 500, "Internal", Absent)
            /\ UNCHANGED <<store, issued>>
       ELSE \E session_id \in uuid4(ids) :
            /\ issued' = issued \cup {session_id}
            /\ store' = store_interview_session(session_id,
                            new_session(session_id, now, analyze_resume(resume)))
            /\ last' = Reply("start", session_id, 0, 200, "none",
                             Some(new_session(session_id, now, analyze_resume(resume))))

\* the status check of get_next_question left out
QuestionNotInProgress_unchecked(session_data) == FALSE

\* if session_data["status"] != "in_progress" in get_next_question
QuestionNotInProgress(session_data) == session_data.status # "in_progress"

\* the session after a question that also takes over the question's difficulty
next_question_session_adopts_difficulty(session_data, llm) ==
    LET total_questions == session_data.total_questions_asked
        next_question == generate_next_question(session_data.responses,
                            session_data.current_difficulty,
                            interview_progress(total_questions), total_questions, llm)
    IN [session_data EXCEPT
          !.questions = Append(@, next_question),
          !.total_questions_asked = @ + 1,
          !.current_difficulty = next_question.difficulty]

next_question_session(session_data, llm) ==
    LET total_questions == session_data.total_questions_asked
        next_question == generate_next_question(session_data.responses,
                            session_data.current_difficulty,
                            interview_progress(total_questions), total_questions, llm)
    IN [session_data EXCEPT
          !.questions = Append(@, next_question),
          !.total_questions_asked = @ + 1]

get_next_question(session_id, llm, fails) ==
    LET found == get_interview_session(session_id)
        session_data == found[1]
        updated == next_question_session(session_data, llm)
    IN /\ UNCHANGED issued
       /\ IF found = Absent
          THEN /\ last' = Reply("next_question", session_id, 0, 404, "NotFound", Absent)
               /\ UNCHANGED store
          ELSE IF QuestionNotInProgress(session_data)
          THEN /\ last' = Reply("next_question", session_id, 0, 400, "InvalidState", Absent)
               /\ UNCHANGED store
          ELSE IF fails
          THEN /\ last' = Reply("next_question", session_id, 0, 500, "Internal", Absent)
               /\ UNCHANGED store
          ELSE /\ store' = store_interview_session(session_id, updated)
               /\ last' = Reply("next_question", session_id, 0, 200, "none",
                                Some(updated.questions[Len(updated.questions)]))

\* the difficulty the prompt of the agent asks the language model for when
\* get_next_question is called on session_data: the next_difficulty of the
\* context built from the session's current difficulty, answers and progress
requested_difficulty(session_data) ==
    build_question_context(session_data.responses, session_data.current_difficulty,
        interview_progress(session_data.total_questions_asked)).next_difficulty

\* the active-question check left out
NoActiveQuestion_unchecked(session_data) == FALSE

\* if current_question_index >= len(session_data["questions"])
NoActiveQuestion(session_data) ==
    session_data.current_question_index >= Len(session_data.questions)

\* the status check of submit_response left out
ResponseNotInProgress_unchecked(session_data) == FALSE

\* if session_data["status"] != "in_progress" in submit_response
ResponseNotInProgress(session_data) == session_data.status # "in_progress"

\* scores = [r.get("evaluation_score", 0) for r in responses if r.get("evaluation_score")]
\* if scores: average_score = sum(scores) / len(scores)
updated_average_score(old_average, responses) ==
    LET scored == SelectSeq(responses, LAMBDA r : Truthy(r.evaluation_score))
        scores == [i \in 1..Len(scored) |-> scored[i].evaluation_score]
    IN IF Len(scores) > 0 THEN Frac(SumSeq(scores), Len(scores)) ELSE old_average

\* submit_response leaving current_question_index as it was
submit_response_session_keeps_index(session_data, question_id, time_taken, llm) ==
    LET evaluation == evaluate_response(llm)
        response_obj == [question_id |-> question_id,
                         time_taken |-> time_taken,
                         evaluation_score |-> evaluation.overall_score]
        responses == Append(session_data.responses, response_obj)
    IN [session_data EXCEPT
          !.responses = responses,
          !.evaluations = Append(@, evaluation),
          !.total_responses_received = @ + 1,
          !.average_score = updated_average_score(@, responses),
          !.current_difficulty = evaluation.suggested_difficulty]

\* submit_response leaving the session's current difficulty as it was
submit_response_session_keeps_difficulty(session_data, question_id, time_taken, llm) ==
    LET current_question == session_data.questions[session_data.current_question_index + 1]
        evaluation == evaluate_response(llm)
        response_obj == [question_id |-> question_id,
                         time_taken |-> time_taken,
                         evaluation_score |-> evaluation.overall_score]
        responses == Append(session_data.responses, response_obj)
    IN [session_data EXCEPT
          !.responses = responses,
          !.evaluations = Append(@, evaluation),
          !.current_question_index = @ + 1,
          !.total_responses_received = @ + 1,
          !.average_score = updated_average_score(@, responses)]

submit_response_session(session_data, question_id, time_taken, llm) ==
    LET current_question == session_data.questions[session_data.current_question_index + 1]
        evaluation == evaluate_response(llm)
        response_obj == [question_id |-> question_id,
                         time_taken |-> time_taken,
                         evaluation_score |-> evaluation.overall_score]
        responses == Append(session_data.responses, response_obj)
    IN [session_data EXCEPT
          !.responses = responses,
          !.evaluations = Append(@, evaluation),
          !.current_question_index = @ + 1,
          !.total_responses_received = @ + 1,
          !.average_score = updated_average_score(@, responses),
          !.current_difficulty = evaluation.suggested_difficulty]

submit_response(session_id, question_id, time_taken, llm, fails) ==
    LET found == get_interview_session(session_id)
        session_data == found[1]
        updated == submit_response_session(session_data, question_id, time_taken, llm)
    IN /\ UNCHANGED issued
       /\ IF found = Absent
          THEN /\ last' = Reply("submit_answer", session_id, question_id, 404, "NotFound", Absent)
               /\ UNCHANGED store
          ELSE IF ResponseNotInProgress(session_data)
          THEN /\ last' = Reply("submit_answer", session_id, question_id, 400,
                                "InvalidState", Absent)
               /\ UNCHANGED store
          ELSE IF NoActiveQuestion(session_data)
          THEN /\ last' = Reply("submit_answer", session_id, question_id, 400,
                                "NoActiveQuestion", Absent)
               /\ UNCHANGED store
          ELSE IF fails
          THEN /\ last' = Reply("submit_answer", session_id, question_id, 500,
                                "Internal", Absent)
               /\ UNCHANGED store
          ELSE /\ store' = store_interview_session(session_id, updated)
               /\ last' = Reply("submit_answer", session_id, question_id, 200, "none",
                                Some(updated.evaluations[Len(updated.evaluations)]))

\* the report with answers whose time_taken is 0 left out of the average
generate_comprehensive_report_truthy_times(session_data) ==
    LET average_score == session_data.average_score
        timed == SelectSeq(session_data.responses, LAMBDA r : r.time_taken # 0)
        response_times == [i \in 1..Len(timed) |-> timed[i].time_taken]
    IN [session_id |-> session_data.session_id,
        overall_score |-> average_score,
        total_questions |-> session_data.total_questions_asked,
        total_responses |-> session_data.total_responses_received,
        average_response_time |->
            IF Len(response_times) > 0
            THEN Frac(SumSeq(response_times), Len(response_times)) ELSE <<0, 1>>,
        hiring_recommendation |->
            IF FracGeq(average_score, HireScore) THEN "hire"
            ELSE IF FracGeq(average_score, ConsiderScore) THEN "consider"
            ELSE "reject",
        confidence_level |-> ReportConfidence,
        interview_duration |-> session_data.ended_at[1] - session_data.started_at]

\* the report with a further band at 7.0 and a confidence for each band
generate_comprehensive_report_four_bands(session_data) ==
    LET average_score == session_data.average_score
        response_times == [i \in 1..Len(session_data.responses) |->
                             session_data.responses[i].time_taken]
    IN [session_id |-> session_data.session_id,
        overall_score |-> average_score,
        total_questions |-> session_data.total_questions_asked,
        total_responses |-> session_data.total_responses_received,
        average_response_time |->
            IF Len(response_times) > 0
            THEN Frac(SumSeq(response_times), Len(response_times)) ELSE <<0, 1>>,
        hiring_recommendation |->
            IF FracGeq(average_score, HireScore) THEN "strong_hire"
            ELSE IF FracGeq(average_score, 70) THEN "hire"
            ELSE IF FracGeq(average_score, ConsiderScore) THEN "consider"
            ELSE "do_not_hire",
        confidence_level |->
            IF FracGeq(average_score, HireScore) THEN 9
            ELSE IF FracGeq(average_score, 70) THEN 8
            ELSE IF FracGeq(average_score, ConsiderScore) THEN 6
            ELSE 7,
        interview_duration |-> session_data.ended_at[1] - session_data.started_at]

generate_comprehensive_report(session_data) ==
    LET average_score == session_data.average_score
        response_times == [i \in 1..Len(session_data.responses) |->
                             session_data.responses[i].time_taken]
    IN [session_id |-> session_data.session_id,
        overall_score |-> average_score,
        total_questions |-> session_data.total_questions_asked,
        total_responses |-> session_data.total_responses_received,
        average_response_time |->
            IF Len(response_times) > 0
            THEN Frac(SumSeq(response_times), Len(response_times)) ELSE <<0, 1>>,
        hiring_recommendation |->
            IF FracGeq(average_score, HireScore) THEN "hire"
            ELSE IF FracGeq(average_score, ConsiderScore) THEN "consider"
            ELSE "reject",
        confidence_level |-> ReportConfidence,
        interview_duration |-> session_data.ended_at[1] - session_data.started_at]

\* the completed check of finalize_interview left out
AlreadyCompleted_unchecked(session_data) == FALSE

\* if session_data["status"] == "completed" in finalize_interview
AlreadyCompleted(session_data) == session_data.status = "completed"

finalize_session(session_data, now) ==
    LET sealed == [session_data EXCEPT !.status = "completed", !.ended_at = Some(now)]
    IN [sealed EXCEPT !.final_report = Some(generate_comprehensive_report(sealed))]

\* finalize_interview writing the completed status before the report is built
finalize_interview_store_first(session_id, now, fails) ==
    LET found == get_interview_session(session_id)
        session_data == found[1]
        sealed == [session_data EXCEPT !.status = "completed", !.ended_at = Some(now)]
        updated == finalize_session(session_data, now)
    IN /\ UNCHANGED issued
       /\ IF found = Absent
          THEN /\ last' = Reply("finalize", session_id, 0, 404, "NotFound", Absent)
               /\ UNCHANGED store
          ELSE IF AlreadyCompleted(session_data)
          THEN /\ last' = Reply("finalize", session_id, 0, 400, "AlreadyCompleted", Absent)
               /\ UNCHANGED store
          ELSE IF fails
          THEN /\ last' = Reply("finalize", session_id, 0, 500, "Internal", Absent)
               /\ store' = store_interview_session(session_id, sealed)
          ELSE /\ store' = store_interview_session(session_id, updated)
               /\ last' = Reply("finalize", session_id, 0, 200, "none", updated.final_report)

finalize_interview(session_id, now, fails) ==
    LET found == get_interview_session(session_id)
        session_data == found[1]
        updated == finalize_session(session_data, now)
    IN /\ UNCHANGED issued
       /\ IF found = Absent
          THEN /\ last' = Reply("finalize", session_id, 0, 404, "NotFound", Absent)
               /\ UNCHANGED store
          ELSE IF AlreadyCompleted(session_data)
          THEN /\ last' = Reply("finalize", session_id, 0, 400, "AlreadyCompleted", Absent)
               /\ UNCHANGED store
          ELSE IF fails
          THEN /\ last' = Reply("finalize", session_id, 0, 500, "Internal", Absent)
               /\ UNCHANGED store
          ELSE /\ store' = store_interview_session(session_id, updated)
               /\ last' = Reply("finalize", session_id, 0, 200, "none", updated.final_report)

\* the completed check of get_interview_report left out
NotReady_unchecked(session_data) == FALSE

\* if session_data["status"] != "completed" in get_interview_report
NotReady(session_data) == session_data.status # "completed"

\* get_interview_report without the check that a session was found
get_interview_report_unchecked_lookup(session_id, fails) ==
    LET found == get_interview_session(session_id)
        session_data == found[1]
    IN /\ UNCHANGED <<store, issued>>
       /\ last' =
            IF found = Absent
            THEN Reply("get_report", session_id, 0, 500, "Internal", Absent)
            ELSE IF NotReady(session_data)
            THEN Reply("get_report", session_id, 0, 400, "NotReady", Absent)
            ELSE IF fails
            THEN Reply("get_report", session_id, 0, 500, "Internal", Absent)
            ELSE IF session_data.final_report # Absent
            THEN Reply("get_report", session_id, 0, 200, "none", session_data.final_report)
            ELSE Reply("get_report", session_id, 0, 404, "ReportMissing", Absent)

\* get_interview_report deleting the session once its report is delivered
get_interview_report_consuming(session_id, fails) ==
    LET found == get_interview_session(session_id)
        session_data == found[1]
        delivered == found # Absent /\ ~NotReady(session_data) /\ ~fails
                     /\ session_data.final_report # Absent
    IN /\ UNCHANGED issued
       /\ store' = IF delivered THEN ttl_expired(session_id) ELSE store
       /\ last' =
            IF found = Absent
            THEN Reply("get_report", session_id, 0, 404, "NotFound", Absent)
            ELSE IF NotReady(session_data)
            THEN Reply("get_report", session_id, 0, 400, "NotReady", Absent)
            ELSE IF fails
            THEN Reply("get_report", session_id, 0, 500, "Internal", Absent)
            ELSE IF session_data.final_report # Absent
            THEN Reply("get_report", session_id, 0, 200, "none", session_data.final_report)
            ELSE Reply("get_report", session_id, 0, 404, "ReportMissing", Absent)

get_interview_report(session_id, fails) ==
    LET found == get_interview_session(session_id)
        session_data == found[1]
    IN /\ UNCHANGED <<store, issued>>
       /\ last' =
            IF found = Absent
            THEN Reply("get_report", session_id, 0, 404, "NotFound", Absent)
            ELSE IF NotReady(session_data)
            THEN Reply("get_report", session_id, 0, 400, "NotReady", Absent)
            ELSE IF fails
            THEN Reply("get_report", session_id, 0, 500, "Internal", Absent)
            ELSE IF session_data.final_report # Absent
            THEN Reply("get_report", session_id, 0, 200, "none", session_data.final_report)
            ELSE Reply("get_report", session_id, 0, 404, "ReportMissing", Absent)

----------------------------------------------------------------------------
(* The environment: clients calling the five operations one at a time, and *)
(* Redis dropping a session key once its time-to-live has run out.         *)

\* time_taken of a response, in seconds
ResponseTimes == {30}
\* datetime.utcnow(), in seconds after the start of the session
Times == {0, 60}
\* the n of the question ids "q_n" a client names in a response
QuestionIds == {1, 2}

\* no run of the difficulty rule on its own is under way
NoTrial == [kind |-> "none"]

Init ==
    /\ store = [k \in {} |-> None]
    /\ issued = {}
    /\ last = Reply("init", None, 0, 0, "none", Absent)
    /\ trial = NoTrial

\* the model stops asking a session for questions at cap questions
BelowCap(session_id, cap) ==
    session_id \in DOMAIN store => store[session_id].total_questions_asked < cap

Start ==
    /\ \E has_files \in BOOLEAN, resume \in NarrowResumeReplies, fails \in BOOLEAN :
          start_interview(SessionIds, has_files, resume, 0, fails)
    /\ UNCHANGED trial

NextQuestion ==
    \E session_id \in RequestIds, llm \in QuestionReplies, fails \in BOOLEAN :
        /\ BelowCap(session_id, MaxQuestions)
        /\ get_next_question(session_id, llm, fails)
        /\ UNCHANGED trial

SubmitAnswer ==
    \E session_id \in RequestIds, question_id \in QuestionIds, time_taken \in ResponseTimes,
       llm \in EvaluationReplies, fails \in BOOLEAN :
        /\ submit_response(session_id, question_id, time_taken, llm, fails)
        /\ UNCHANGED trial

Finalize ==
    \E session_id \in RequestIds, now \in Times, fails \in BOOLEAN :
        /\ finalize_interview(session_id, now, fails)
        /\ UNCHANGED trial

GetReport ==
    \E session_id \in RequestIds, fails \in BOOLEAN :
        /\ get_interview_report(session_id, fails)
        /\ UNCHANGED trial

Expire ==
    \E session_id \in DOMAIN store :
        /\ store' = ttl_expired(session_id)
        /\ last' = Reply("ttl_expired", session_id, 0, 0, "none", Absent)
        /\ UNCHANGED <<issued, trial>>

Next == Start \/ NextQuestion \/ SubmitAnswer \/ Finalize \/ GetReport \/ Expire

Spec == Init /\ [][Next]_vars

----------------------------------------------------------------------------
(* Long sessions: the same handlers, with the agent's replies narrowed to  *)
(* one so that a session can be followed past the planned ten questions.   *)

LongStart ==
    /\ \E resume \in NarrowResumeReplies : start_interview(SessionIds, TRUE, resume, 0, FALSE)
    /\ UNCHANGED trial

LongNextQuestion ==
    \E session_id \in RequestIds, llm \in NarrowQuestionReplies :
        /\ BelowCap(session_id, MaxLongRun)
        /\ get_next_question(session_id, llm, FALSE)
        /\ UNCHANGED trial

LongSubmitAnswer ==
    \E session_id \in RequestIds, llm \in NarrowEvaluationReplies, fails \in BOOLEAN :
        /\ submit_response(session_id, 1, 30, llm, fails)
        /\ UNCHANGED trial

LongFinalize ==
    \E session_id \in RequestIds :
        finalize_interview(session_id, 60, FALSE) /\ UNCHANGED trial

LongGetReport ==
    \E session_id \in RequestIds :
        get_interview_report(session_id, FALSE) /\ UNCHANGED trial

NextLong == LongStart \/ LongNextQuestion \/ LongSubmitAnswer \/ LongFinalize \/ LongGetReport

SpecLong == Init /\ [][NextLong]_vars

----------------------------------------------------------------------------
(* Progress: a session followed two questions past the planned ten, to see *)
(* the progress fraction of get_next_question below, at and above one.     *)

\* cap on the questions of a session in the progress specification
MaxProgressRun == 12

ProgressStart ==
    /\ \E resume \in NarrowResumeReplies : start_interview(SessionIds, TRUE, resume, 0, FALSE)
    /\ UNCHANGED trial

ProgressNextQuestion ==
    \E session_id \in RequestIds, llm \in NarrowQuestionReplies :
        /\ BelowCap(session_id, MaxProgressRun)
        /\ get_next_question(session_id, llm, FALSE)
        /\ UNCHANGED trial

ProgressSubmitAnswer ==
    \E session_id \in RequestIds, llm \in NarrowEvaluationReplies :
        /\ submit_response(session_id, 1, 30, llm, FALSE)
        /\ UNCHANGED trial

ProgressFinalize ==
    \E session_id \in RequestIds :
        finalize_interview(session_id, 60, FALSE) /\ UNCHANGED trial

NextProgress ==
    ProgressStart \/ ProgressNextQuestion \/ ProgressSubmitAnswer \/ ProgressFinalize

SpecProgress == Init /\ [][NextProgress]_vars

----------------------------------------------------------------------------
(* Starting sessions: start with every outcome of the resume analysis,     *)
(* followed by questions, finalize and expiry of the session.              *)

AnalysedStart ==
    /\ \E has_files \in BOOLEAN, resume \in ResumeReplies, fails \in BOOLEAN :
          start_interview(SessionIds, has_files, resume, 0, fails)
    /\ UNCHANGED trial

NextStart == AnalysedStart \/ NextQuestion \/ Finalize \/ Expire

SpecStart == Init /\ [][NextStart]_vars

----------------------------------------------------------------------------
(* Timed sessions: answers that took different times, among them 0 seconds, *)
(* with the agent's replies narrowed to one.                                *)

\* cap on the questions of one session in the timed specification
MaxTimedRun == 3

\* time_taken of a response, in seconds
TimedResponseTimes == {0, 30, 45}

TimedStart ==
    /\ \E resume \in NarrowResumeReplies : start_interview(SessionIds, TRUE, resume, 0, FALSE)
    /\ UNCHANGED trial

TimedNextQuestion ==
    \E session_id \in RequestIds, llm \in NarrowQuestionReplies :
        /\ BelowCap(session_id, MaxTimedRun)
        /\ get_next_question(session_id, llm, FALSE)
        /\ UNCHANGED trial

TimedSubmitAnswer ==
    \E session_id \in RequestIds, time_taken \in TimedResponseTimes,
       llm \in NarrowEvaluationReplies :
        /\ submit_response(session_id, 1, time_taken, llm, FALSE)
        /\ UNCHANGED trial

TimedFinalize ==
    \E session_id \in RequestIds :
        finalize_interview(session_id, 60, FALSE) /\ UNCHANGED trial

NextTimed == TimedStart \/ TimedNextQuestion \/ TimedSubmitAnswer \/ TimedFinalize

SpecTimed == Init /\ [][NextTimed]_vars

----------------------------------------------------------------------------
(* Two sessions: the operations of two sessions interleaved, one call at a *)
(* time, with the agent's replies narrowed to one.                         *)

\* cap on the questions of each session in the two-session specification
MaxPairRun == 2

\* the session ids uuid4 can produce in the two-session specification
PairIds == {"sid_a", "sid_b"}

PairStart ==
    /\ \E resume \in NarrowResumeReplies : start_interview(PairIds, TRUE, resume, 0, FALSE)
    /\ UNCHANGED trial

PairNextQuestion ==
    \E session_id \in PairIds, llm \in NarrowQuestionReplies :
        /\ BelowCap(session_id, MaxPairRun)
        /\ get_next_question(session_id, llm, FALSE)
        /\ UNCHANGED trial

PairSubmitAnswer ==
    \E session_id \in PairIds, llm \in NarrowEvaluationReplies, fails \in BOOLEAN :
        /\ submit_response(session_id, 1, 30, llm, fails)
        /\ UNCHANGED trial

PairFinalize ==
    \E session_id \in PairIds :
        finalize_interview(session_id, 60, FALSE) /\ UNCHANGED trial

PairGetReport ==
    \E session_id \in PairIds :
        get_interview_report(session_id, FALSE) /\ UNCHANGED trial

PairExpire ==
    \E session_id \in DOMAIN store :
        /\ store' = ttl_expired(session_id)
        /\ last' = Reply("ttl_expired", session_id, 0, 0, "none", Absent)
        /\ UNCHANGED <<issued, trial>>

NextPair ==
    \/ PairStart \/ PairNextQuestion \/ PairSubmitAnswer
    \/ PairFinalize \/ PairGetReport \/ PairExpire

SpecPair == Init /\ [][NextPair]_vars

----------------------------------------------------------------------------
(* Concurrent submit_response calls: the handler is a coroutine that gives *)
(* up control at its awaits, so between its load of the session and its   *)
(* store of the updated copy another call can run.  Each call is two      *)
(* steps: the load with the checks, and the evaluation with the store.    *)

\* cap on the questions of the session in the concurrent specification
MaxRaceRun == 2

\* the submit_response calls that can be in flight together
RaceCalls == {"call_1", "call_2"}

\* time_taken of the answers of the concurrent calls
RaceResponseTimes == {30, 45}

IdleCall == [pc |-> "idle", session_id |-> None, time_taken |-> 0, loaded |-> Absent, code |-> 0]

InitRace ==
    /\ store = [k \in {} |-> None]
    /\ issued = {}
    /\ last = Reply("init", None, 0, 0, "none", Absent)
    /\ trial = [kind |-> "race", calls |-> [c \in RaceCalls |-> IdleCall]]

RaceStart ==
    /\ \E resume \in NarrowResumeReplies : start_interview(SessionIds, TRUE, resume, 0, FALSE)
    /\ UNCHANGED trial

RaceNextQuestion ==
    \E session_id \in RequestIds, llm \in NarrowQuestionReplies :
        /\ BelowCap(session_id, MaxRaceRun)
        /\ get_next_question(session_id, llm, FALSE)
        /\ UNCHANGED trial

\* what the store step writes for a call that re-reads the session first
submit_response_store_reloading(session_id, loaded, question_id, time_taken, llm) ==
    store_interview_session(session_id,
        submit_response_session(store[session_id], question_id, time_taken, llm))

\* the session as the call's own loaded copy, updated, is written back
submit_response_store(session_id, loaded, question_id, time_taken, llm) ==
    store_interview_session(session_id,
        submit_response_session(loaded, question_id, time_taken, llm))

\* submit_response up to the await of evaluate_response
SubmitLoad ==
    \E c \in RaceCalls, session_id \in RequestIds, time_taken \in RaceResponseTimes :
        LET found == get_interview_session(session_id)
            session_data == found[1]
            failed(code, error) ==
                /\ trial' = [trial EXCEPT !.calls[c] =
                                [pc |-> "done", session_id |-> session_id,
                                 time_taken |-> time_taken, loaded |-> Absent, code |-> code]]
                /\ last' = Reply("submit_answer", session_id, 1, code, error, Absent)
        IN /\ trial.calls[c].pc # "loaded"
           /\ UNCHANGED <<store, issued>>
           /\ IF found = Absent THEN failed(404, "NotFound")
              ELSE IF ResponseNotInProgress(session_data) THEN failed(400, "InvalidState")
              ELSE IF NoActiveQuestion(session_data) THEN failed(400, "NoActiveQuestion")
              ELSE /\ trial' = [trial EXCEPT !.calls[c] =
                                   [pc |-> "loaded", session_id |-> session_id,
                                    time_taken |-> time_taken, loaded |-> found, code |-> 0]]
                   /\ UNCHANGED last

\* submit_response from the result of evaluate_response to the return
SubmitStore ==
    \E c \in RaceCalls, llm \in NarrowEvaluationReplies :
        LET call == trial.calls[c]
            updated == submit_response_session(call.loaded[1], 1, call.time_taken, llm)
        IN /\ call.pc = "loaded"
           /\ store' = submit_response_store(call.session_id, call.loaded[1], 1,
                                             call.time_taken, llm)
           /\ last' = Reply("submit_answer", call.session_id, 1, 200, "none",
                            Some(updated.evaluations[Len(updated.evaluations)]))
           /\ trial' = [trial EXCEPT !.calls[c].pc = "done", !.calls[c].code = 200]
           /\ UNCHANGED issued

NextRace == RaceStart \/ RaceNextQuestion \/ SubmitLoad \/ SubmitStore

SpecRace == InitRace /\ [][NextRace]_vars

----------------------------------------------------------------------------
(* Calls in flight: get_next_question and submit_response give up control  *)
(* while they await the language model, between their load of the session  *)
(* and their store of the updated copy.  In between, other calls can run    *)
(* and the key can expire.  finalize_interview awaits nothing but Redis and *)
(* is one step.                                                             *)

\* cap on the questions of the session in the in-flight specification
MaxFlightRun == 2

\* the calls that can be in flight together
FlightCalls == {"call_1", "call_2"}

\* the handlers that await the language model
FlightOps == {"next_question", "submit_answer"}

IdleFlight == [pc |-> "idle", op |-> "none", session_id |-> None, loaded |-> Absent]

InitFlight ==
    /\ store = [k \in {} |-> None]
    /\ issued = {}
    /\ last = Reply("init", None, 0, 0, "none", Absent)
    /\ trial = [kind |-> "flight", calls |-> [c \in FlightCalls |-> IdleFlight]]

FlightStart ==
    /\ \E resume \in NarrowResumeReplies : start_interview(SessionIds, TRUE, resume, 0, FALSE)
    /\ UNCHANGED trial

\* get_next_question or submit_response up to its await of the agent
FlightLoad ==
    \E c \in FlightCalls, op \in FlightOps, session_id \in RequestIds :
        LET found == get_interview_session(session_id)
            session_data == found[1]
            failed(code, error) ==
                /\ trial' = [trial EXCEPT !.calls[c] =
                                [pc |-> "done", op |-> op, session_id |-> session_id,
                                 loaded |-> Absent]]
                /\ last' = Reply(op, session_id, 0, code, error, Absent)
            awaits ==
                /\ trial' = [trial EXCEPT !.calls[c] =
                                [pc |-> "loaded", op |-> op, session_id |-> session_id,
                                 loaded |-> found]]
                /\ UNCHANGED last
        IN /\ trial.calls[c].pc # "loaded"
           /\ op = "next_question" => BelowCap(session_id, MaxFlightRun)
           /\ UNCHANGED <<store, issued>>
           /\ IF found = Absent THEN failed(404, "NotFound")
              ELSE IF op = "next_question"
              THEN IF QuestionNotInProgress(session_data)
                   THEN failed(400, "InvalidState") ELSE awaits
              ELSE IF ResponseNotInProgress(session_data) THEN failed(400, "InvalidState")
              ELSE IF NoActiveQuestion(session_data) THEN failed(400, "NoActiveQuestion")
              ELSE awaits

\* the same handler from the agent's result to its return
FlightStore ==
    \E c \in FlightCalls, question \in NarrowQuestionReplies, evaluation \in NarrowEvaluationReplies :
        LET call == trial.calls[c]
            updated == IF call.op = "next_question"
                       THEN next_question_session(call.loaded[1], question)
                       ELSE submit_response_session(call.loaded[1], 1, 30, evaluation)
        IN /\ call.pc = "loaded"
           /\ store' = store_interview_session(call.session_id, updated)
           /\ last' = Reply(call.op, call.session_id, 0, 200, "none", Absent)
           /\ trial' = [trial EXCEPT !.calls[c].pc = "done"]
           /\ UNCHANGED issued

FlightFinalize ==
    \E session_id \in RequestIds :
        finalize_interview(session_id, 60, FALSE) /\ UNCHANGED trial

FlightExpire ==
    \E session_id \in DOMAIN store :
        /\ store' = ttl_expired(session_id)
        /\ last' = Reply("ttl_expired", session_id, 0, 0, "none", Absent)
        /\ UNCHANGED <<issued, trial>>

NextFlight == FlightStart \/ FlightLoad \/ FlightStore \/ FlightFinalize \/ FlightExpire

SpecFlight == InitFlight /\ [][NextFlight]_vars

----------------------------------------------------------------------------
(* Adaptive sessions: every reply of the agent, no failing step, and        *)
(* enough questions for the progress fraction to reach 0.3.                 *)

\* cap on the questions of one session in the adaptive specification
MaxAdaptiveRun == 4

AdaptiveStart ==
    /\ \E resume \in NarrowResumeReplies : start_interview(SessionIds, TRUE, resume, 0, FALSE)
    /\ UNCHANGED trial

AdaptiveNextQuestion ==
    \E session_id \in RequestIds, llm \in QuestionReplies :
        /\ BelowCap(session_id, MaxAdaptiveRun)
        /\ get_next_question(session_id, llm, FALSE)
        /\ UNCHANGED trial

AdaptiveSubmitAnswer ==
    \E session_id \in RequestIds, llm \in EvaluationReplies :
        /\ submit_response(session_id, 1, 30, llm, FALSE)
        /\ UNCHANGED trial

NextAdaptive == AdaptiveStart \/ AdaptiveNextQuestion \/ AdaptiveSubmitAnswer

SpecAdaptive == Init /\ [][NextAdaptive]_vars

----------------------------------------------------------------------------
(* The difficulty rule on its own: _determine_next_difficulty applied once  *)
(* to a current difficulty, a rolling average score and a progress fraction *)
(* drawn from a grid.                                                       *)

\* the highest score, in tenths of a point
MaxScore == 100

\* the progress fractions tried are the multiples of 1 / ProgressSteps
ProgressSteps == 20

\* rolling averages from 0.0 to 10.0 in steps of 0.05
AverageScores == {Frac(n, 2) : n \in 0..(2 * MaxScore)}

ProgressFractions == {Frac(n, ProgressSteps) : n \in 0..ProgressSteps}

InitDifficulty ==
    /\ store = [k \in {} |-> None]
    /\ issued = {}
    /\ last = Reply("init", None, 0, 0, "none", Absent)
    /\ trial \in {[kind |-> "difficulty",
                    current_difficulty |-> d,
                    average_score |-> a,
                    interview_progress |-> p,
                    result |-> "pending"] :
                       d \in DifficultyLevel, a \in AverageScores, p \in ProgressFractions}

Determine ==
    /\ trial.kind = "difficulty"
    /\ trial.result = "pending"
    /\ trial' = [trial EXCEPT !.result =
                    determine_next_difficulty(trial.current_difficulty,
                        trial.average_score, trial.interview_progress)]
    /\ UNCHANGED <<store, issued, last>>

NextDifficulty == Determine

SpecDifficulty == InitDifficulty /\ [][NextDifficulty]_vars

----------------------------------------------------------------------------
(* The difficulty rule over a run of scored answers: after each answer     *)
(* _build_question_context takes the mean of the scores so far and applies *)
(* the rule to the difficulty the previous application gave.               *)

\* the number of answers of a run
ScenarioLen == 3

\* the overall scores an answer of a run can get, in tenths of a point
ScenarioScores == {0, 50, 65, 85, 90, 92}

ScenarioProgress == {Frac(1, 5), Frac(1, 2)}

InitScenario ==
    /\ store = [k \in {} |-> None]
    /\ issued = {}
    /\ last = Reply("init", None, 0, 0, "none", Absent)
    /\ trial \in {[kind |-> "scenario",
                    interview_progress |-> p,
                    responses |-> <<>>,
                    difficulties |-> <<d>>] : d \in DifficultyLevel, p \in ScenarioProgress}

ScoreAnswer ==
    /\ trial.kind = "scenario"
    /\ Len(trial.responses) < ScenarioLen
    /\ \E score \in ScenarioScores :
         LET responses == Append(trial.responses,
                             [question_id |-> Len(trial.responses) + 1,
                              time_taken |-> 30,
                              evaluation_score |-> score])
             current_difficulty == trial.difficulties[Len(trial.difficulties)]
             context == build_question_context(responses, current_difficulty,
                                               trial.interview_progress)
         IN trial' = [trial EXCEPT !.responses = responses,
                                   !.difficulties = Append(@, context.next_difficulty)]
    /\ UNCHANGED <<store, issued, last>>

NextScenario == ScoreAnswer

SpecScenario == InitScenario /\ [][NextScenario]_vars

----------------------------------------------------------------------------
(* The planner's difficulty adjustment on its own: _determine_difficulty   *)
(* applied once to a template difficulty and a number of years.            *)

\* the longest experience tried, in tenths of a year
MaxExperienceTenths == 70

ExperienceYears == 0..MaxExperienceTenths

NoPlan == <<"pending">>

InitPhaseDifficulty ==
    /\ store = [k \in {} |-> None]
    /\ issued = {}
    /\ last = Reply("init", None, 0, 0, "none", Absent)
    /\ trial \in {[kind |-> "phase_difficulty",
                    base_difficulty |-> d,
                    experience_years |-> y,
                    result |-> "pending"] : d \in DifficultyLevel, y \in ExperienceYears}

DetermineDifficulty ==
    /\ trial.kind = "phase_difficulty"
    /\ trial.result = "pending"
    /\ trial' = [trial EXCEPT !.result =
                    determine_difficulty(trial.base_difficulty, trial.experience_years)]
    /\ UNCHANGED <<store, issued, last>>

NextPhaseDifficulty == DetermineDifficulty

SpecPhaseDifficulty == InitPhaseDifficulty /\ [][NextPhaseDifficulty]_vars

----------------------------------------------------------------------------
(* The planner's question count on its own: _adjust_question_count applied *)
(* once to a template count, a number of years and a position title.  The  *)
(* template counts tried go from 1 to the cap; the catalog's go from 1 to  *)
(* 4.                                                                      *)

\* position titles with the word senior or lead in them, in any case
SeniorTitles == {<<"S", "e", "n", "i", "o", "r", " ", "D", "e", "v">>, <<"T", "e", "c", "h", " ", "L", "E", "A", "D">>, <<"t", "e", "a", "m", " ", "l", "e", "a", "d", "e", "r">>}

\* position titles without them
OtherTitles == {<<"E", "n", "g", "i", "n", "e", "e", "r">>, <<"S", "r", " ", "D", "e", "v">>}

\* the experiences tried with a title: both sides of one year and of five
TitleExperience == {0, 5, 10, 11, 30, 50, 60}

InitQuestionCount ==
    /\ store = [k \in {} |-> None]
    /\ issued = {}
    /\ last = Reply("init", None, 0, 0, "none", Absent)
    /\ trial \in {[kind |-> "question_count",
                    base_count |-> n,
                    experience_years |-> y,
                    position |-> t,
                    result |-> 0] :
                       n \in 1..MaxQuestionCount, y \in TitleExperience,
                       t \in SeniorTitles \cup OtherTitles}

AdjustQuestionCount ==
    /\ trial.kind = "question_count"
    /\ trial.result = 0
    /\ trial' = [trial EXCEPT !.result =
                    adjust_question_count(trial.base_count, trial.experience_years,
                                          trial.position)]
    /\ UNCHANGED <<store, issued, last>>

NextQuestionCount == AdjustQuestionCount

SpecQuestionCount == InitQuestionCount /\ [][NextQuestionCount]_vars

----------------------------------------------------------------------------
(* Planning: generate_interview_sequence applied once to an enumeration of *)
(* the catalog, a candidate, a position, an interview type and a budget.   *)

RECURSIVE Reverse(_)
Reverse(seq) == IF seq = <<>> THEN <<>> ELSE Append(Reverse(Tail(seq)), Head(seq))

Rotate(seq, n) == SubSeq(seq, n + 1, Len(seq)) \o SubSeq(seq, 1, n)

\* orders in which phase_configs.items() could hand out the catalog: the
\* order of declaration, its reverse, and their rotations
CatalogEnumerations ==
    {Rotate(InterviewPhaseType, n) : n \in 0..(Len(InterviewPhaseType) - 1)}
    \cup {Rotate(Reverse(InterviewPhaseType), n) : n \in 0..(Len(InterviewPhaseType) - 1)}

PlanExperience == {10, 30, 60}

PlanPositions == {<<"S", "e", "n", "i", "o", "r", " ", "D", "e", "v">>, <<"E", "n", "g", "i", "n", "e", "e", "r">>}

\* InterviewCreate.duration_minutes: from 30 to 120, 60 when not given
PlanDurations == {30, 60, 120}

InitPlan ==
    /\ store = [k \in {} |-> None]
    /\ issued = {}
    /\ last = Reply("init", None, 0, 0, "none", Absent)
    /\ trial \in {[kind |-> "plan",
                    enumeration |-> e,
                    experience_years |-> y,
                    position |-> t,
                    interview_type |-> i,
                    total_duration |-> b,
                    phases |-> NoPlan] :
                       e \in CatalogEnumerations, y \in PlanExperience, t \in PlanPositions,
                       i \in InterviewType, b \in PlanDurations}

GenerateSequence ==
    /\ trial.kind = "plan"
    /\ trial.phases = NoPlan
    /\ trial' = [trial EXCEPT !.phases =
                    generate_interview_sequence(trial.enumeration, trial.experience_years,
                        trial.position, trial.interview_type, trial.total_duration)]
    /\ UNCHANGED <<store, issued, last>>

NextPlan == GenerateSequence

SpecPlan == InitPlan /\ [][NextPlan]_vars

----------------------------------------------------------------------------
(* Duration normalization: _adjust_duration applied once to the phases     *)
(* generate_interview_sequence hands it, for every budget up to a bound.   *)

\* the largest budget tried, in minutes
MaxTotalDuration == 160

InitNormalize ==
    /\ store = [k \in {} |-> None]
    /\ issued = {}
    /\ last = Reply("init", None, 0, 0, "none", Absent)
    /\ trial \in {[kind |-> "normalize",
                    phases |-> adjusted_phases_of(InterviewPhaseType, y, t, i),
                    total_duration |-> b,
                    result |-> NoPlan] :
                       y \in PlanExperience, t \in PlanPositions, i \in InterviewType,
                       b \in 1..MaxTotalDuration}

AdjustDuration ==
    /\ trial.kind = "normalize"
    /\ trial.result = NoPlan
    /\ trial' = [trial EXCEPT !.result = adjust_duration(trial.phases, trial.total_duration)]
    /\ UNCHANGED <<store, issued, last>>

NextNormalize == AdjustDuration

SpecNormalize == InitNormalize /\ [][NextNormalize]_vars

----------------------------------------------------------------------------
(* agents/question_generator_agent.py: generate_question_sequence, one     *)
(* step per pass of its inner loop.  The call of a slot to the language    *)
(* model either returns a question or raises.                              *)

TechnicalOnlyCount == 8
BehavioralOnlyCount == 8
MixedCount == 4
SituationalCount == 2

RECURSIVE Repeat(_, _)
Repeat(category, count) ==
    IF count = 0 THEN <<>>
    ELSE Append(Repeat(category, count - 1), [category |-> category, i |-> count - 1])

\* question_distribution, laid out as the slots the two loops go through
question_distribution(interview_type) ==
    IF interview_type = "technical"
    THEN Repeat("technical", TechnicalOnlyCount) \o Repeat("situational", SituationalCount)
    ELSE IF interview_type = "behavioral"
    THEN Repeat("behavioral", BehavioralOnlyCount) \o Repeat("situational", SituationalCount)
    ELSE Repeat("technical", MixedCount) \o Repeat("behavioral", MixedCount)
         \o Repeat("situational", SituationalCount)

\* the slot the loops go to after a slot that raised, were the except
\* clause to leave the loops
after_exception_break(slot, slots) == Len(slots) + 1

\* except Exception: continue
after_exception(slot, slots) == slot + 1

InitSequence ==
    /\ store = [k \in {} |-> None]
    /\ issued = {}
    /\ last = Reply("init", None, 0, 0, "none", Absent)
    /\ trial \in {[kind |-> "sequence",
                    interview_type |-> t,
                    slot |-> 1,
                    questions |-> <<>>,
                    failed |-> 0,
                    result |-> Absent] : t \in InterviewType}

\* one pass of the inner loop
GenerateSlot ==
    /\ trial.kind = "sequence"
    /\ trial.result = Absent
    /\ LET slots == question_distribution(trial.interview_type)
       IN /\ trial.slot <= Len(slots)
          /\ \E raises \in BOOLEAN :
                trial' = IF raises
                         THEN [trial EXCEPT !.failed = @ + 1,
                                            !.slot = after_exception(@, slots)]
                         ELSE [trial EXCEPT !.questions = Append(@, slots[trial.slot]),
                                            !.slot = @ + 1]
    /\ UNCHANGED <<store, issued, last>>

\* return questions
ReturnQuestions ==
    /\ trial.kind = "sequence"
    /\ trial.result = Absent
    /\ trial.slot > Len(question_distribution(trial.interview_type))
    /\ trial' = [trial EXCEPT !.result = Some(trial.questions)]
    /\ UNCHANGED <<store, issued, last>>

NextSequence == GenerateSlot \/ ReturnQuestions

\* a pass of the loop that has begun ends, and the loops are followed by the
\* return
SpecSequence == InitSequence /\ [][NextSequence]_vars /\ WF_vars(NextSequence)

----------------------------------------------------------------------------
(* core/redis.py: check_rate_limit over the keys rate_limit:<user>:<endpoint>. *)
(* A key holds a counter and, once EXPIRE was run on it, the time at which  *)
(* Redis removes it.  Texts are sequences of characters; time is in seconds. *)

\* the number of calls followed
MaxRateCalls == 4

\* the last second of the clock
MaxRateTime == 4

\* the limit and the window the calls are made with
RateLimits == {2}
RateWindows == {2}

\* the user ids and endpoints of the calls
RatePairs ==
    {[user_id |-> <<"a">>, endpoint |-> <<"c">>],
     [user_id |-> <<"a">>, endpoint |-> <<"b", ":", "c">>],
     [user_id |-> <<"a", ":", "b">>, endpoint |-> <<"c">>]}

\* f"rate_limit:{user_id}:{endpoint}"
rate_limit_key(user_id, endpoint) ==
    <<"r", "a", "t", "e", "_", "l", "i", "m", "i", "t", ":">> \o user_id \o <<":">> \o endpoint

InitRate ==
    /\ store = [k \in {} |-> None]
    /\ issued = {}
    /\ last = Reply("init", None, 0, 0, "none", Absent)
    /\ trial = [kind |-> "rate", now |-> 0, redis |-> [k \in {} |-> None], log |-> <<>>]

\* client.incr(key): one more than the counter, 1 for a key that is not there
incr(redis, key) == IF key \in DOMAIN redis THEN redis[key].value + 1 ELSE 1

\* check_rate_limit: the keys afterwards and what the call comes back with
check_rate_limit(redis, now, key, limit, window, expire_raises) ==
    LET current == incr(redis, key)
        counted == [k \in DOMAIN redis \cup {key} |->
                      IF k = key
                      THEN [value |-> current,
                            expire_at |-> IF key \in DOMAIN redis
                                          THEN redis[key].expire_at ELSE Absent]
                      ELSE redis[k]]
    IN IF current = 1
       THEN IF expire_raises
            THEN [redis |-> counted, outcome |-> "raised"]
            ELSE [redis |-> [counted EXCEPT ![key].expire_at = Some(now + window)],
                  outcome |-> IF current <= limit THEN "true" ELSE "false"]
       ELSE [redis |-> counted, outcome |-> IF current <= limit THEN "true" ELSE "false"]

CheckRateLimit ==
    /\ trial.kind = "rate"
    /\ Len(trial.log) < MaxRateCalls
    /\ \E pair \in RatePairs, limit \in RateLimits, window \in RateWindows,
          expire_raises \in BOOLEAN :
          LET key == rate_limit_key(pair.user_id, pair.endpoint)
              call == check_rate_limit(trial.redis, trial.now, key, limit, window,
                                       expire_raises)
          IN /\ expire_raises => key \notin DOMAIN trial.redis
             /\ trial' = [trial EXCEPT
                            !.redis = call.redis,
                            !.log = Append(@, [user_id |-> pair.user_id,
                                               endpoint |-> pair.endpoint,
                                               limit |-> limit, window |-> window,
                                               at |-> trial.now,
                                               outcome |-> call.outcome])]
    /\ UNCHANGED <<store, issued, last>>

\* a second passes; Redis removes the keys whose time has come
RateTick ==
    /\ trial.kind = "rate"
    /\ trial.now < MaxRateTime
    /\ LET live == {k \in DOMAIN trial.redis :
                      trial.redis[k].expire_at = Absent
                      \/ trial.redis[k].expire_at[1] > trial.now + 1}
       IN trial' = [trial EXCEPT !.now = @ + 1, !.redis = [k \in live |-> trial.redis[k]]]
    /\ UNCHANGED <<store, issued, last>>

NextRate == CheckRateLimit \/ RateTick

SpecRate == InitRate /\ [][NextRate]_vars

----------------------------------------------------------------------------
(* Properties *)

Stored(s) == s \in DOMAIN store
Completed(s) == Stored(s) /\ store[s].status = "completed"
InProgress(s) == Stored(s) /\ store[s].status = "in_progress"

SessionOps == {"next_question", "submit_answer", "finalize", "get_report"}

\* C1: the persisted status of a session only ever changes from in_progress
\* to completed; once a session is stored as completed, no later step stores
\* it with another status.
C1_StatusOnlyForward ==
    [][\A s \in SessionIds :
         /\ (Stored(s) /\ s \in DOMAIN store' /\ store'[s].status # store[s].status)
               => (store[s].status = "in_progress" /\ store'[s].status = "completed")
         /\ (Completed(s) /\ s \in DOMAIN store') => store'[s].status = "completed"]_vars

\* a completed session was asked for another question
C1_Witness ==
    \E s \in SessionIds : Completed(s) /\ last.op = "next_question" /\ last.sid = s

\* the id of the most recently issued question that has no answer yet (0: none)
OutstandingQuestionId(session_data) ==
    IF Len(session_data.questions) > Len(session_data.responses)
    THEN session_data.questions[Len(session_data.questions)].id
    ELSE 0

\* C2: a submit_answer on an in_progress session whose question_id is not the
\* id of the most recently issued unanswered question is rejected with
\* NoActiveQuestion and records nothing.
C2_RejectsOtherQuestionId ==
    [][\A s \in SessionIds :
         (/\ last'.op = "submit_answer" /\ last'.sid = s
          /\ InProgress(s)
          /\ last'.error # "Internal"
          /\ last'.qid # OutstandingQuestionId(store[s]))
         => (last'.error = "NoActiveQuestion" /\ store' = store)]_vars

\* C3: finalize on a session stored as completed is rejected with
\* AlreadyCompleted and leaves the stored session as it was.
C3_FinalizeTwiceRejected ==
    [][\A s \in SessionIds :
         (last'.op = "finalize" /\ last'.sid = s /\ Completed(s))
         => (last'.error = "AlreadyCompleted" /\ last'.code = 400 /\ store' = store)]_vars

\* finalize was called on a completed session
C3_Witness ==
    \E s \in SessionIds :
        Completed(s) /\ last.op = "finalize" /\ last.sid = s /\ last.error = "AlreadyCompleted"

\* C4: get_report answers NotFound when nothing is stored under the id and
\* NotReady when the stored status is not completed; when it returns a
\* Report, the session is completed and the Report is the stored one.
C4_ReportOnlyWhenCompleted ==
    last.op = "get_report" =>
        /\ ~Stored(last.sid) => (last.error = "NotFound" /\ last.code = 404)
        /\ (Stored(last.sid) /\ ~Completed(last.sid))
              => (last.error = "NotReady" /\ last.code = 400 /\ last.body = Absent)
        /\ last.error = "none"
              => (/\ Completed(last.sid)
                  /\ last.body # Absent
                  /\ last.body = store[last.sid].final_report)

\* the report of a session with questions was asked for before finalize
C4_Witness ==
    /\ last.op = "get_report" /\ last.error = "NotReady"
    /\ Stored(last.sid) /\ Len(store[last.sid].questions) > 0

\* C5: next_question and submit_answer answer NotFound when nothing is stored
\* under the id and InvalidState when the stored status is not in_progress,
\* and in both cases write nothing to the store.
C5_NotFoundInvalidState ==
    [][\A s \in RequestIds :
         (last'.op \in {"next_question", "submit_answer"} /\ last'.sid = s)
         => /\ ~Stored(s) => (last'.error = "NotFound" /\ last'.code = 404 /\ store' = store)
            /\ (Stored(s) /\ ~InProgress(s))
                 => (last'.error = "InvalidState" /\ last'.code = 400 /\ store' = store)]_vars

\* an answer was submitted to a completed session that has an unanswered question
C5_Witness ==
    \E s \in SessionIds :
        /\ Completed(s) /\ last.op = "submit_answer" /\ last.sid = s
        /\ last.error = "InvalidState"
        /\ Len(store[s].questions) > Len(store[s].responses)

\* C6: a completed session is sealed: no next_question, submit_answer,
\* finalize or get_report call changes anything of the stored session.
C6_CompletedIsSealed ==
    [][\A s \in SessionIds :
         (Completed(s) /\ last'.op \in SessionOps)
         => (s \in DOMAIN store' /\ store'[s] = store[s])]_vars

\* a completed session with an answered and an unanswered question was read
C6_Witness ==
    \E s \in SessionIds :
        /\ Completed(s) /\ last.op = "get_report" /\ last.error = "none"
        /\ Len(store[s].responses) > 0
        /\ Len(store[s].questions) > Len(store[s].responses)

\* C7: an operation that returns an error leaves the store as it was.
C7_ErrorsWriteNothing ==
    [][(last'.op \in Ops /\ last'.error # "none") => store' = store]_vars

\* a step of finalize failed after its checks had passed
C7_Witness ==
    \E s \in SessionIds :
        InProgress(s) /\ last.op = "finalize" /\ last.sid = s /\ last.error = "Internal"

\* C8: a stored session never has more answers than questions.
C8_AnswersAtMostQuestions ==
    \A s \in DOMAIN store : Len(store[s].responses) <= Len(store[s].questions)

\* every issued question is answered and a further answer was turned away
C8_Witness ==
    \E s \in SessionIds :
        /\ InProgress(s) /\ last.op = "submit_answer" /\ last.error = "NoActiveQuestion"
        /\ Len(store[s].responses) = Len(store[s].questions)
        /\ Len(store[s].responses) > 0

\* C9: a stored session never has more questions than the planned total.
C9_QuestionsWithinPlan ==
    \A s \in DOMAIN store : Len(store[s].questions) <= PlannedTotalQuestions

\* the arithmetic mean of the overall scores of all recorded ScoreCards
MeanOverallScore(session_data) ==
    LET scores == [i \in 1..Len(session_data.evaluations) |->
                     session_data.evaluations[i].overall_score]
    IN Frac(SumSeq(scores), Len(scores))

Determined == trial.kind = "difficulty" /\ trial.result # "pending"

\* the progress fraction of the trial is below 0.3
EarlyInInterview == 10 * trial.interview_progress[1] < 3 * trial.interview_progress[2]

\* C11: whatever the current difficulty and the rolling average score, the
\* difficulty rule returns medium when the progress fraction is below 0.3.
C11_EarlyIsMedium ==
    (Determined /\ EarlyInInterview) => trial.result = "medium"

\* the rule was applied at hard with an average of 9.0 at progress 0.25
C11_Witness ==
    /\ Determined
    /\ trial.current_difficulty = "hard"
    /\ trial.average_score = <<90, 1>>
    /\ trial.interview_progress = <<1, 4>>
    /\ trial.result = "medium"

\* the three levels in their order
Rank(difficulty) ==
    CASE difficulty = "easy" -> 1 [] difficulty = "medium" -> 2 [] difficulty = "hard" -> 3

\* one step up and one step down the scale, stopping at its ends
StepUp(difficulty) ==
    CASE difficulty = "easy" -> "medium" [] difficulty = "medium" -> "hard"
      [] difficulty = "hard" -> "hard"
StepDown(difficulty) ==
    CASE difficulty = "hard" -> "medium" [] difficulty = "medium" -> "easy"
      [] difficulty = "easy" -> "easy"

\* the rolling average of the trial, in tenths, is at least / at most n
AverageAtLeast(n) == trial.average_score[1] >= n * trial.average_score[2]
AverageAtMost(n) == trial.average_score[1] <= n * trial.average_score[2]

\* C12: at progress 0.3 or more the rule steps up one level (stopping at
\* hard) for an average of 8.0 or more, steps down one level (stopping at
\* easy) for 5.0 or less, and returns the current difficulty in between; so
\* it never goes down for 8.0 or more and never goes up for 5.0 or less.
C12_MatchesReference ==
    (Determined /\ ~EarlyInInterview) =>
        /\ AverageAtLeast(80) => trial.result = StepUp(trial.current_difficulty)
        /\ AverageAtMost(50) => trial.result = StepDown(trial.current_difficulty)
        /\ (~AverageAtLeast(80) /\ ~AverageAtMost(50))
              => trial.result = trial.current_difficulty
        /\ AverageAtLeast(80) => Rank(trial.result) >= Rank(trial.current_difficulty)
        /\ AverageAtMost(50) => Rank(trial.result) <= Rank(trial.current_difficulty)

\* the rule was applied at hard with an average of exactly 5.0 at progress 0.3
C12_Witness ==
    /\ Determined
    /\ trial.current_difficulty = "hard"
    /\ trial.average_score = <<50, 1>>
    /\ trial.interview_progress = <<3, 10>>
    /\ trial.result = "medium"

\* the scores of a run so far
ScenarioScoresSoFar ==
    [i \in 1..Len(trial.responses) |-> trial.responses[i].evaluation_score]

\* C13: starting at medium with progress 0.5, answers scored 9.0, 8.5 and
\* 9.2 give the difficulties medium, hard, hard, hard: after each answer of
\* that run the difficulties so far are the matching prefix.
C13_ScenarioProgression ==
    (/\ trial.kind = "scenario"
     /\ trial.difficulties[1] = "medium"
     /\ trial.interview_progress = <<1, 2>>)
    => \A k \in 0..3 :
          ScenarioScoresSoFar = SubSeq(<<90, 85, 92>>, 1, k)
          => trial.difficulties = SubSeq(<<"medium", "hard", "hard", "hard">>, 1, k + 1)

\* the run of 9.0, 8.5, 9.2 from medium at progress 0.5 has been scored
C13_Witness ==
    /\ trial.kind = "scenario"
    /\ trial.difficulties[1] = "medium"
    /\ trial.interview_progress = <<1, 2>>
    /\ ScenarioScoresSoFar = <<90, 85, 92>>
    /\ Len(trial.difficulties) = 4

\* the ScoreCard of the most recent answer of a session
LastScoreCard(session_data) == session_data.evaluations[Len(session_data.evaluations)]

\* a step in which next_question succeeds on session s, which has an answer
QuestionAfterAnswer(s) ==
    /\ InProgress(s) /\ Len(store[s].evaluations) > 0
    /\ last'.op = "next_question" /\ last'.sid = s /\ last'.error = "none"

RuleOnSession(session_data) ==
    IF session_data.total_questions_asked < 3 THEN "medium"
    ELSE IF FracGeq(session_data.average_score, 80)
    THEN StepUp(session_data.current_difficulty)
    ELSE IF FracLeq(session_data.average_score, 50)
    THEN StepDown(session_data.current_difficulty)
    ELSE session_data.current_difficulty

FinalizeSucceeds(s) == last'.op = "finalize" /\ last'.sid = s /\ last'.error = "none"

\* C15: a Report is created once: finalize succeeds only on a session that
\* is in progress and has no Report, and stores the Report it returns; once
\* a session has a Report no finalize succeeds on it and no step stores the
\* session with another Report; no finalize succeeds on an expired session.
C15_ReportCreatedOnce ==
    [][\A s \in SessionIds :
         /\ FinalizeSucceeds(s)
               => /\ InProgress(s) /\ store[s].final_report = Absent
                  /\ s \in DOMAIN store' /\ store'[s].status = "completed"
                  /\ store'[s].final_report # Absent
                  /\ store'[s].final_report = last'.body
         /\ (Stored(s) /\ store[s].final_report # Absent)
               => /\ ~FinalizeSucceeds(s)
                  /\ s \in DOMAIN store' => store'[s].final_report = store[s].final_report
         /\ (~Stored(s) /\ s \in issued) => ~FinalizeSucceeds(s)]_vars

\* finalize was called a second time, at another time than the first, on a
\* session with an answer
C15_Witness ==
    \E s \in SessionIds :
        /\ Completed(s) /\ last.op = "finalize" /\ last.error = "AlreadyCompleted"
        /\ store[s].ended_at = Some(0)
        /\ Len(store[s].responses) > 0

\* C16: get_report writes nothing, and on a completed session it returns
\* the stored Report, which is the Report of the session as finalize sealed it.
C16_GetReportIsPureRead ==
    [][\A s \in RequestIds :
         (last'.op = "get_report" /\ last'.sid = s)
         => /\ store' = store /\ issued' = issued
            /\ (Completed(s) /\ last'.error # "Internal")
                 => /\ last'.error = "none"
                    /\ last'.body = store[s].final_report
                    /\ last'.body = Some(generate_comprehensive_report(store[s]))]_vars

\* the report of a completed session with two answers was read
C16_Witness ==
    \E s \in SessionIds :
        /\ Completed(s) /\ last.op = "get_report" /\ last.sid = s /\ last.error = "none"
        /\ last.body = store[s].final_report
        /\ last.body[1].total_responses = 2

\* the evaluation call failed or its reply could not be parsed
ScorerFailed(llm) == llm.kind \in {"raise", "unparsable"}

SkillProfile(session_data) == session_data.candidate.resume_analysis

\* a step in which start, given files and with no other failing step, runs
\* with the resume analysis call ending as resume says
StartWith(resume) == start_interview(SessionIds, TRUE, resume, 0, FALSE)

\* the session a successful start has just stored
Started == store'[last'.sid]

\* start went through and stored a new session that is in progress, with
\* no skills and zero years of experience in its SkillProfile
StartedWithEmptyProfile ==
    /\ last'.op = "start" /\ last'.error = "none"
    /\ last'.sid \notin DOMAIN store /\ last'.sid \in DOMAIN store'
    /\ Started.status = "in_progress"
    /\ SkillProfile(Started).extracted_skills = <<>>
    /\ SkillProfile(Started).experience_years = 0

Reported == {s \in DOMAIN store : store[s].final_report # Absent}
Report(s) == store[s].final_report[1]

TimesTaken(session_data) ==
    [i \in 1..Len(session_data.responses) |-> session_data.responses[i].time_taken]

\* C21: the average response time of a Report is the mean of the time-taken
\* values of all recorded answers, those of 0 seconds included, and 0.0 when
\* the session has no answers.
C21_AverageResponseTime ==
    \A s \in Reported :
        IF Len(store[s].responses) = 0
        THEN Report(s).average_response_time = <<0, 1>>
        ELSE Report(s).average_response_time[1] * Len(store[s].responses)
                = SumSeq(TimesTaken(store[s])) * Report(s).average_response_time[2]

\* a session was finalized with one answer of 0 seconds and one of 45
C21_Witness ==
    \E s \in Reported :
        /\ last.op = "finalize" /\ last.error = "none"
        /\ TimesTaken(store[s]) = <<0, 45>>
        /\ Report(s).average_response_time = <<45, 2>>

\* a step in which op succeeds on session s
Succeeds(op, s) == last'.op = op /\ last'.sid = s /\ last'.error = "none"

\* session s is stored after the step and loads as session_data
LoadsAs(s, session_data) == s \in DOMAIN store' /\ store'[s] = session_data

Expired(s) == s \in issued /\ ~Stored(s)

\* C23: an expired session is unrecoverable: no step stores it again, and
\* every next_question, submit_answer, finalize and get_report call on its id
\* fails with NotFound, whatever its status was.
C23_ExpiredIsUnrecoverable ==
    [][\A s \in SessionIds :
         Expired(s)
         => /\ s \notin DOMAIN store'
            /\ (last'.op \in SessionOps /\ last'.sid = s)
                 => (last'.error = "NotFound" /\ last'.code = 404)]_vars

\* the report of an expired session was asked for
C23_Witness ==
    \E s \in SessionIds :
        Expired(s) /\ last.op = "get_report" /\ last.sid = s /\ last.error = "NotFound"

\* the step runs an operation for session b: it starts b, or is a call or
\* an expiry that names b
StepOf(b) ==
    \/ last'.sid = b
    \/ b \notin issued /\ b \in issued'

\* the stored state of session a is the same before and after the step
Untouched(a) ==
    IF a \in DOMAIN store
    THEN a \in DOMAIN store' /\ store'[a] = store[a]
    ELSE a \notin DOMAIN store'

\* C24: operations on different sessions do not interfere: a step that runs
\* an operation for session b leaves the stored state of every other session
\* a as it was, and what a successful operation stores for a session is
\* determined by that session's stored state and the operation's inputs.
C24_SessionsDoNotInterfere ==
    [][\A a \in PairIds :
         /\ \A b \in PairIds \ {a} : StepOf(b) => Untouched(a)
         /\ Succeeds("start", a)
            => \E resume \in NarrowResumeReplies :
                   LoadsAs(a, new_session(a, 0, analyze_resume(resume)))
         /\ \A llm \in NarrowQuestionReplies :
              Succeeds("next_question", a)
              => LoadsAs(a, next_question_session(store[a], llm))
         /\ \A llm \in NarrowEvaluationReplies :
              Succeeds("submit_answer", a)
              => LoadsAs(a, submit_response_session(store[a], 1, 30, llm))
         /\ Succeeds("finalize", a) => LoadsAs(a, finalize_session(store[a], 60))
         /\ (last'.op = "get_report" /\ last'.sid = a) => Untouched(a)]_vars

\* an answer was recorded for one session while the other, started before
\* it, is stored completed with no answer
C24_Witness ==
    \E a \in PairIds : \E b \in PairIds \ {a} :
        /\ Completed(a) /\ Len(store[a].questions) = 1 /\ Len(store[a].responses) = 0
        /\ InProgress(b) /\ Len(store[b].responses) = 2
        /\ last.op = "submit_answer" /\ last.sid = b /\ last.error = "none"

\* calls c and d both returned success after loading the same stored session
BothSucceededOnSameLoad(c, d) ==
    /\ trial.calls[c].pc = "done" /\ trial.calls[c].code = 200
    /\ trial.calls[d].pc = "done" /\ trial.calls[d].code = 200
    /\ trial.calls[c].loaded = trial.calls[d].loaded

DifficultyAdjusted == trial.kind = "phase_difficulty" /\ trial.result # "pending"

\* C27: the planned difficulty is one step above the template's for five
\* years or more (hard stays hard), one step below for one year or less
\* (easy stays easy), and the template's otherwise.
C27_PlannedDifficulty ==
    DifficultyAdjusted =>
        /\ trial.experience_years >= 50 => trial.result = StepUp(trial.base_difficulty)
        /\ trial.experience_years <= 10 => trial.result = StepDown(trial.base_difficulty)
        /\ (trial.experience_years > 10 /\ trial.experience_years < 50)
           => trial.result = trial.base_difficulty

\* a medium template was planned for exactly five years, and came out hard
C27_Witness ==
    /\ DifficultyAdjusted
    /\ trial.base_difficulty = "medium" /\ trial.experience_years = 50
    /\ trial.result = "hard"

\* the trial of the planner's question count has been carried out
CountAdjusted == trial.kind = "question_count" /\ trial.result # 0

\* C28: the planned question count is the template's plus 1, at most 6, for
\* a title with senior or lead in it, then minus 1, at least 1, for one
\* year or less; it is at least 1 and within 1 of the template's.
C28_PlannedQuestionCount ==
    CountAdjusted =>
        LET raised == IF trial.position \in SeniorTitles
                      THEN (IF trial.base_count + 1 > 6 THEN 6 ELSE trial.base_count + 1)
                      ELSE trial.base_count
            lowered == IF trial.experience_years <= 10
                       THEN (IF raised - 1 < 1 THEN 1 ELSE raised - 1)
                       ELSE raised
        IN /\ trial.result = lowered
           /\ trial.result >= 1
           /\ trial.result - trial.base_count \in {-1, 0, 1}

\* a template of 6 questions for a lead title stayed at the cap of 6
C28_Witness ==
    /\ CountAdjusted
    /\ trial.base_count = 6 /\ trial.position = <<"T", "e", "c", "h", " ", "L", "E", "A", "D">> /\ trial.experience_years = 30
    /\ trial.result = 6

\* the trial of the planner has been carried out
Planned == trial.kind = "plan" /\ trial.phases # NoPlan

\* the catalog phases whose interview types contain interview_type
RequiredKeys(interview_type) ==
    {k \in DOMAIN phase_configs : interview_type \in phase_configs[k].required_for}

\* C26: the plan holds exactly the catalog phases required for the interview
\* type, each once, in strictly increasing phase order, and for every order
\* in which the catalog is enumerated it is the plan made from the catalog
\* in its order of declaration.
C26_PlanSelectsAndOrders ==
    Planned =>
        LET phases == trial.phases
            required == RequiredKeys(trial.interview_type)
        IN /\ Len(phases) = Cardinality(required)
           /\ {<<phases[i].phase_name, phases[i].phase_order>> : i \in 1..Len(phases)}
              = {<<phase_configs[k].name, phase_configs[k].order>> : k \in required}
           /\ \A i \in 1..(Len(phases) - 1) : phases[i].phase_order < phases[i + 1].phase_order
           /\ phases = generate_interview_sequence(InterviewPhaseType, trial.experience_years,
                           trial.position, trial.interview_type, trial.total_duration)

\* a behavioral plan was made from the catalog enumerated in reverse
C26_Witness ==
    /\ Planned
    /\ trial.enumeration = Reverse(InterviewPhaseType)
    /\ trial.interview_type = "behavioral"
    /\ Len(trial.phases) = 6
    /\ trial.phases[1].phase_order = 1 /\ trial.phases[6].phase_order = 9

\* the planned phase made from catalog phase key, if the plan has one
PlannedPhases(key) ==
    {trial.phases[i] : i \in {j \in 1..Len(trial.phases) :
                                trial.phases[j].phase_order = phase_configs[key].order}}

\* the trial is a plan for six years, a technical interview and 60 minutes
SeniorTechnicalHour ==
    /\ Planned
    /\ trial.experience_years = 60
    /\ trial.interview_type = "technical"
    /\ trial.total_duration = 60

Normalized == trial.kind = "normalize" /\ trial.result # NoPlan

\* the sum of the durations of the phases handed to the normalization
TotalEstimated == SumSeq([i \in 1..Len(trial.phases) |-> trial.phases[i].estimated_duration])

\* C30: phases whose durations sum to at most total_duration are returned
\* unchanged; otherwise each duration d becomes the larger of 3 and the
\* integer part of d * total_duration / sum.  Either way each duration is at
\* least 3 and no larger than before, and the name, order, question count
\* and difficulty of each phase are unchanged.
C30_DurationNormalization ==
    Normalized =>
        /\ Len(trial.result) = Len(trial.phases)
        /\ TotalEstimated <= trial.total_duration => trial.result = trial.phases
        /\ \A i \in 1..Len(trial.phases) :
              LET before == trial.phases[i]
                  after == trial.result[i]
                  floored == (before.estimated_duration * trial.total_duration) \div TotalEstimated
              IN /\ TotalEstimated > trial.total_duration
                    => after.estimated_duration = (IF floored >= 3 THEN floored ELSE 3)
                 /\ after.estimated_duration >= 3
                 /\ after.estimated_duration <= before.estimated_duration
                 /\ after.phase_name = before.phase_name
                 /\ after.phase_order = before.phase_order
                 /\ after.question_count = before.question_count
                 /\ after.difficulty_level = before.difficulty_level

\* a mixed plan of 154 minutes was cut for a budget of 77: the advanced
\* technical phase went from 34 minutes to 17, the closing stayed at 3
C30_Witness ==
    /\ Normalized
    /\ TotalEstimated = 154 /\ trial.total_duration = 77
    /\ trial.phases[4].estimated_duration = 34 /\ trial.result[4].estimated_duration = 17
    /\ trial.phases[9].estimated_duration = 3 /\ trial.result[9].estimated_duration = 3

\* the interview_progress get_next_question computes on session_data and
\* hands to generate_next_question, which hands it to the difficulty rule
passed_progress(session_data) == interview_progress(session_data.total_questions_asked)

\* questions asked so far over the planned total, cut off at one
ClampedShare(asked) ==
    IF asked >= PlannedTotalQuestions THEN <<1, 1>> ELSE <<asked, PlannedTotalQuestions>>

\* C31: the progress fraction a successful next_question passes on is the
\* number of questions asked so far over the planned total, between 0 and
\* 1, and over the steps of a session the fraction never goes down.
C31_ProgressFraction ==
    [][\A s \in SessionIds :
         /\ Succeeds("next_question", s)
            => LET passed == passed_progress(store[s])
               IN /\ FracEq(passed, ClampedShare(Len(store[s].questions)))
                  /\ FracGeq(passed, 0) /\ FracLeq(passed, 1)
         /\ (s \in DOMAIN store /\ s \in DOMAIN store')
            => LET before == passed_progress(store[s])
                   after == passed_progress(store'[s])
               IN after[1] * before[2] >= before[1] * after[2]]_vars

\* a twelfth question was issued: eleven had been asked, and the fraction
\* passed on was one
C31_Witness ==
    \E s \in SessionIds :
        /\ Stored(s) /\ Len(store[s].questions) = 12
        /\ last.op = "next_question" /\ last.sid = s /\ last.error = "none"

\* generate_question_sequence has returned
Returned == trial.kind = "sequence" /\ trial.result # Absent

\* the number of questions of a category in the result
CountOf(category) ==
    Cardinality({n \in 1..Len(trial.result[1]) : trial.result[1][n].category = category})

\* the questions planned for a category and an interview type
PlannedOf(category, interview_type) ==
    CASE interview_type = "technical" ->
           (IF category = "technical" THEN 8 ELSE IF category = "situational" THEN 2 ELSE 0)
      [] interview_type = "behavioral" ->
           (IF category = "behavioral" THEN 8 ELSE IF category = "situational" THEN 2 ELSE 0)
      [] OTHER ->
           (IF category = "situational" THEN 2 ELSE 4)

QuestionCategories == {"technical", "behavioral", "situational"}

\* C32: generate_question_sequence returns for every interview type; its
\* result has one question for each of the 10 planned slots that did not
\* fail, no more of a category than planned, so it is non-empty when any
\* slot succeeded.
C32_SequenceSurvivesFailures ==
    /\ <>Returned
    /\ [](Returned =>
            /\ Len(trial.result[1]) = 10 - trial.failed
            /\ \A c \in QuestionCategories :
                  CountOf(c) <= PlannedOf(c, trial.interview_type)
            /\ trial.failed = 0
               => \A c \in QuestionCategories :
                     CountOf(c) = PlannedOf(c, trial.interview_type)
            /\ trial.failed < 10 => Len(trial.result[1]) > 0)

\* a technical sequence in which nine slots failed returned its one question
C32_Witness ==
    /\ Returned
    /\ trial.interview_type = "technical"
    /\ trial.failed = 9
    /\ Len(trial.result[1]) = 1 /\ trial.result[1][1].category = "situational"

C34_ExpiredIsNeverRecreated ==
    [][\A s \in SessionIds : Expired(s) => s \notin DOMAIN store']_vars

\* C35: after every successful submit_answer the stored current difficulty
\* is the recommended next difficulty of the ScoreCard just recorded, and
\* no next_question changes the stored current difficulty.
C35_DifficultyFollowsScoreCard ==
    [][\A s \in SessionIds :
         /\ Succeeds("submit_answer", s)
            => /\ Stored(s) /\ s \in DOMAIN store'
               /\ Len(store'[s].evaluations) = Len(store[s].evaluations) + 1
               /\ store'[s].current_difficulty = LastScoreCard(store'[s]).suggested_difficulty
         /\ (last'.op = "next_question" /\ last'.sid = s /\ Stored(s))
            => /\ s \in DOMAIN store'
               /\ store'[s].current_difficulty = store[s].current_difficulty]_vars

\* a hard question was issued to a session whose last ScoreCard recommends
\* easy, and the stored current difficulty is still easy
C35_Witness ==
    \E s \in SessionIds :
        /\ InProgress(s) /\ last.op = "next_question" /\ last.error = "none"
        /\ Len(store[s].evaluations) = 1 /\ Len(store[s].questions) = 2
        /\ LastScoreCard(store[s]).suggested_difficulty = "easy"
        /\ store[s].questions[2].difficulty = "hard"
        /\ store[s].current_difficulty = "easy"

\* C36: in every stored session the counters agree with the histories:
\* total_questions_asked is the number of questions, and
\* total_responses_received, current_question_index, the number of answers
\* and the number of ScoreCards are all equal.
C36_CountersMatchHistories ==
    \A s \in DOMAIN store :
        /\ store[s].total_questions_asked = Len(store[s].questions)
        /\ store[s].total_responses_received = Len(store[s].responses)
        /\ store[s].current_question_index = Len(store[s].responses)
        /\ Len(store[s].evaluations) = Len(store[s].responses)

\* a completed session with two questions and one answer
C36_Witness ==
    \E s \in SessionIds :
        /\ Completed(s)
        /\ store[s].total_questions_asked = 2
        /\ store[s].current_question_index = 1
        /\ Len(store[s].evaluations) = 1

OneQuestionMore(s) ==
    /\ s \in DOMAIN store'
    /\ Len(store'[s].questions) = Len(store[s].questions) + 1
    /\ SubSeq(store'[s].questions, 1, Len(store[s].questions)) = store[s].questions
    /\ store'[s].total_questions_asked = store[s].total_questions_asked + 1
    /\ store'[s] = [store[s] EXCEPT !.questions = store'[s].questions,
                                    !.total_questions_asked = store'[s].total_questions_asked]

\* C38: a successful next_question appends one Question, adds one to
\* total_questions_asked and leaves the rest of the stored session as it
\* was; short of an internal error next_question succeeds on every
\* in_progress session, and when the question generator raises the
\* Question issued is the fallback of difficulty medium.
C38_NextQuestionFrame ==
    [][\A s \in SessionIds :
         /\ (Succeeds("next_question", s) /\ Stored(s)) => OneQuestionMore(s)
         /\ (last'.op = "next_question" /\ last'.sid = s /\ InProgress(s)
             /\ last'.error # "Internal")
            => Succeeds("next_question", s)
         /\ \A llm \in QuestionReplies :
              (/\ last'.op = "next_question" /\ last'.sid = s
               /\ InProgress(s) /\ llm.kind = "raise"
               /\ get_next_question(s, llm, FALSE))
              => /\ Succeeds("next_question", s)
                 /\ store'[s].questions[Len(store'[s].questions)].difficulty = "medium"]_vars

\* a second question of difficulty medium was issued to a session whose
\* current difficulty is hard
C38_Witness ==
    \E s \in SessionIds :
        /\ InProgress(s) /\ last.op = "next_question" /\ last.error = "none"
        /\ Len(store[s].questions) = 2 /\ Len(store[s].responses) = 1
        /\ store[s].current_difficulty = "hard"
        /\ store[s].questions[2].difficulty = "medium"

\* the calls of the log, up to its n-th, made for the pair of the n-th
CallsOfPair(n) ==
    SelectSeq(SubSeq(trial.log, 1, n),
              LAMBDA c : c.user_id = trial.log[n].user_id /\ c.endpoint = trial.log[n].endpoint)

\* a fixed window over the calls of one pair: the second at which the window
\* of the last call began and the place of the last call in that window
RECURSIVE FixedWindow(_)
FixedWindow(calls) ==
    IF Len(calls) = 1 THEN [began |-> calls[1].at, k |-> 1]
    ELSE LET earlier == FixedWindow(SubSeq(calls, 1, Len(calls) - 1))
             call == calls[Len(calls)]
         IN IF call.at >= earlier.began + call.window
            THEN [began |-> call.at, k |-> 1]
            ELSE [began |-> earlier.began, k |-> earlier.k + 1]

\* C39: check_rate_limit keeps a fixed window for each pair of user and
\* endpoint: a call returns True iff it is at most the limit-th call of its
\* pair in the window, the window ends window seconds after its first call,
\* and the first call after that begins a new window; the calls of other
\* pairs play no part.
C39_FixedWindowPerPair ==
    (trial.kind = "rate" /\ trial.log # <<>>) =>
        LET n == Len(trial.log)
            call == trial.log[n]
            place == FixedWindow(CallsOfPair(n))
        IN call.outcome # "raised"
           => (call.outcome = "true" <=> place.k <= call.limit)

====
